---- MODULE Spec2Model ----
(***************************************************************************)
(* Payment reconciliation backend: the batch worker                        *)
(* (workers/reconciliationWorker.ts), the batch bookkeeping                *)
(* (services/reconciliation.service.ts), the admin state machine           *)
(* (services/transaction.service.ts), the audit log                        *)
(* (services/audit.service.ts) and the retrying job queue                  *)
(* (workers/reconciliation.queue.ts).                                      *)
(*                                                                         *)
(* Every awaited store call of the code is one step of the model, so that  *)
(* other requests and worker runs interleave exactly where the event loop  *)
(* and the database let them.  A prisma.$transaction block is one step:    *)
(* its writes become visible together at commit or not at all.             *)
(***************************************************************************)
EXTENDS Integers, Sequences, FiniteSets, Bags, TLC

(***************************************************************************)
(* Bounds of the model.                                                    *)
(***************************************************************************)
MaxRows == 2
MaxCrashes == 1
\* Longest text handed to normalizeName.
MaxName == 4
\* Audit entries in the log beyond which no further admin request is sent.
MaxAudit == 1

Batches == {"b1"}
Workers == {"w1"}
\* The two job slots of the queue worker (concurrency: 2).
WorkerSlots == {"w1", "w2"}
Admins == {"a1", "a2"}

(***************************************************************************)
(* Program constants.                                                      *)
(***************************************************************************)
AUTO_MATCHED_THRESHOLD == 95
NEEDS_REVIEW_THRESHOLD == 60
NAME_SIMILARITY_WEIGHT == 1
QueueAttempts == 3

DATE_PROXIMITY == [VERY_CLOSE |-> 3, CLOSE |-> 7, MODERATE |-> 15, FAR |-> 30]
DATE_SCORES == [VERY_CLOSE |-> 15, CLOSE |-> 10, MODERATE |-> 5, NEUTRAL |-> 0,
                FAR_PENALTY |-> 0 - 10]
AMBIGUITY_PENALTIES == [SINGLE |-> 0, TWO |-> 5, MULTIPLE |-> 10]

CONFIRMABLE_STATUSES == {"auto_matched", "needs_review"}
REJECTABLE_STATUSES == {"auto_matched", "needs_review"}
MANUAL_MATCHABLE_STATUSES == {"needs_review", "unmatched"}
EXTERNAL_MARKABLE_STATUSES == {"unmatched"}

STATUS_MAP == [AUTO_MATCHED |-> "auto_matched", NEEDS_REVIEW |-> "needs_review",
               UNMATCHED |-> "unmatched"]

\* A null invoice reference (invoice ids are positive).
Null == 0

(***************************************************************************)
(* The invoice table.  Invoices are seeded before the service runs and the *)
(* modelled code never writes them.  Invoice 4 is paid, so it is never a   *)
(* candidate; invoices 2 and 3 share an amount.                            *)
(***************************************************************************)
Invoices ==
  << [id |-> 1, amount |-> 1, status |-> "sent"],
     [id |-> 2, amount |-> 2, status |-> "sent"],
     [id |-> 3, amount |-> 2, status |-> "overdue"],
     [id |-> 4, amount |-> 3, status |-> "paid"] >>

InvoiceIds == {Invoices[i].id : i \in DOMAIN Invoices}

\* Invoice ids an admin may supply to manual_match; 9 names no invoice.
SuppliedInvoiceIds == {2, 9}

(***************************************************************************)
(* CSV input.  A data row carries what the parser and the matcher read     *)
(* from it: the parsed amount (0 stands for an amount that is not a        *)
(* positive number), whether the date parses, whether the description is  *)
(* non-empty once trimmed, the name similarity of the description against  *)
(* each invoice's customer name (indexed by invoice id) and the distance   *)
(* in days to each invoice's due date.                                     *)
(***************************************************************************)
\* Scores are kept in thousandths of a point: pts(n) is n points.
pts(n) == n * 1000

RowAuto ==
  [amount |-> 1, dateOk |-> TRUE, descOk |-> TRUE,
   nameSimilarity |-> <<pts(100), 0, 0, 0>>,
   days |-> <<0, 0, 0, 0>>]
RowReview ==
  [amount |-> 2, dateOk |-> TRUE, descOk |-> TRUE,
   nameSimilarity |-> <<0, pts(100), pts(90), pts(100)>>,
   days |-> <<0, 45, 45, 0>>]
RowLow ==
  [amount |-> 1, dateOk |-> TRUE, descOk |-> TRUE,
   nameSimilarity |-> <<pts(40), 0, 0, 0>>,
   days |-> <<20, 0, 0, 0>>]
RowBad ==
  [amount |-> 0, dateOk |-> TRUE, descOk |-> TRUE,
   nameSimilarity |-> <<pts(100), 0, 0, 0>>,
   days |-> <<0, 0, 0, 0>>]
\* An amount that only the paid invoice has: no candidates.
RowNone ==
  [amount |-> 3, dateOk |-> TRUE, descOk |-> TRUE,
   nameSimilarity |-> <<0, 0, 0, pts(100)>>,
   days |-> <<0, 0, 0, 0>>]
\* A description that is empty once trimmed: it resembles no customer name.
RowBlank ==
  [amount |-> 1, dateOk |-> TRUE, descOk |-> FALSE,
   nameSimilarity |-> <<0, 0, 0, 0>>,
   days |-> <<0, 0, 0, 0>>]
\* A date that does not parse.
RowNoDate ==
  [amount |-> 1, dateOk |-> FALSE, descOk |-> TRUE,
   nameSimilarity |-> <<pts(100), 0, 0, 0>>,
   days |-> <<0, 0, 0, 0>>]

RowKinds == {RowAuto, RowReview, RowLow, RowBad, RowNone, RowBlank, RowNoDate}

\* The uploads tried: header = FALSE means that a required column is missing
\* from the header line.
CsvCatalogue ==
  {[header |-> TRUE, rows |-> << >>],
   [header |-> TRUE, rows |-> <<RowBad>>],
   [header |-> TRUE, rows |-> <<RowAuto>>],
   [header |-> TRUE, rows |-> <<RowNone>>],
   [header |-> TRUE, rows |-> <<RowBlank>>],
   [header |-> TRUE, rows |-> <<RowNoDate>>],
   [header |-> TRUE, rows |-> <<RowReview, RowLow>>],
   [header |-> TRUE, rows |-> <<RowAuto, RowAuto>>],
   [header |-> TRUE, rows |-> <<RowBad, RowReview, RowLow>>],
   [header |-> TRUE, rows |-> <<RowAuto, RowBad, RowAuto>>],
   [header |-> FALSE, rows |-> << >>],
   [header |-> FALSE, rows |-> <<RowAuto>>]}

CsvFiles == {f \in CsvCatalogue : Len(f.rows) <= MaxRows}


(***************************************************************************)
(* Matching engine (pure).                                                 *)
(***************************************************************************)
Max(a, b) == IF a >= b THEN a ELSE b
Min(a, b) == IF a <= b THEN a ELSE b

\* Instants are counted in hours, so MS_PER_DAY is a day of 24 hours.
HOURS_PER_DAY == 24

\* Math.abs
Abs(x) == IF x < 0 THEN 0 - x ELSE x

\* Date.UTC(date.getFullYear(), date.getMonth(), date.getDate()): midnight
\* UTC of the calendar day that the instant falls on in the process's time
\* zone (tz hours ahead of UTC).
DateUTC(date, tz) == ((date + tz) \div HOURS_PER_DAY) * HOURS_PER_DAY

\* A day count that keeps its sign.
daysBetween_Signed(date1, date2, tz) ==
  (DateUTC(date2, tz) - DateUTC(date1, tz)) \div HOURS_PER_DAY

\* daysBetween: Math.abs(Math.floor((utc2 - utc1) / MS_PER_DAY))
daysBetween(date1, date2, tz) ==
  Abs((DateUTC(date2, tz) - DateUTC(date1, tz)) \div HOURS_PER_DAY)

\* calculateDateScore, after const difference = daysBetween(...)
calculateDateScore(difference) ==
  IF difference <= DATE_PROXIMITY.VERY_CLOSE THEN DATE_SCORES.VERY_CLOSE
  ELSE IF difference <= DATE_PROXIMITY.CLOSE THEN DATE_SCORES.CLOSE
  ELSE IF difference <= DATE_PROXIMITY.MODERATE THEN DATE_SCORES.MODERATE
  ELSE IF difference > DATE_PROXIMITY.FAR THEN DATE_SCORES.FAR_PENALTY
  ELSE DATE_SCORES.NEUTRAL

calculateAmbiguityPenalty(candidateCount) ==
  IF candidateCount <= 0 THEN 0
  ELSE IF candidateCount = 1 THEN AMBIGUITY_PENALTIES.SINGLE
  ELSE IF candidateCount = 2 THEN AMBIGUITY_PENALTIES.TWO
  ELSE AMBIGUITY_PENALTIES.MULTIPLE

\* Math.round(x * 100) / 100 for x >= 0: to the nearest hundredth, halves up
roundHundredths(x) == ((x + 5) \div 10) * 10

\* A combiner that returns the raw total, rounded but not clamped.
calculateConfidence_Unclamped(nameSimilarity, dateScore, candidateCount) ==
  LET rawTotal == nameSimilarity * NAME_SIMILARITY_WEIGHT + pts(dateScore)
                    - pts(calculateAmbiguityPenalty(candidateCount))
  IN IF rawTotal >= 0 THEN roundHundredths(rawTotal) ELSE 0 - roundHundredths(0 - rawTotal)

\* The returned confidenceScore: clamped to 0..100, then rounded.
calculateConfidence(nameSimilarity, dateScore, candidateCount) ==
  LET weightedNameScore == nameSimilarity * NAME_SIMILARITY_WEIGHT
      ambiguityPenalty == calculateAmbiguityPenalty(candidateCount)
      rawTotal == weightedNameScore + pts(dateScore) - pts(ambiguityPenalty)
      confidenceScore == Max(0, Min(pts(100), rawTotal))
  IN roundHundredths(confidenceScore)

\* A classification that takes the two thresholds as exclusive.
determineStatus_Exclusive(confidenceScore) ==
  IF confidenceScore > pts(AUTO_MATCHED_THRESHOLD) THEN "AUTO_MATCHED"
  ELSE IF confidenceScore > pts(NEEDS_REVIEW_THRESHOLD) THEN "NEEDS_REVIEW"
  ELSE "UNMATCHED"

determineStatus(confidenceScore) ==
  IF confidenceScore >= pts(AUTO_MATCHED_THRESHOLD) THEN "AUTO_MATCHED"
  ELSE IF confidenceScore >= pts(NEEDS_REVIEW_THRESHOLD) THEN "NEEDS_REVIEW"
  ELSE "UNMATCHED"

\* preliminaryScore is nameSimilarity * 0.7 + dateScore; kept in tenths of
\* the unit of the scores.
scoreCandidate(row, invoice) ==
  LET nameSimilarity == row.nameSimilarity[invoice.id]
      dateScore == calculateDateScore(row.days[invoice.id])
  IN [invoice |-> invoice, nameSimilarity |-> nameSimilarity, dateScore |-> dateScore,
      preliminaryScore |-> nameSimilarity * 7 + pts(dateScore) * 10]

\* scoredCandidates.reduce((best, current) => current > best ? current : best)
RECURSIVE bestOf(_, _, _)
bestOf(scored, i, best) ==
  IF i > Len(scored) THEN best
  ELSE bestOf(scored, i + 1,
              IF scored[i].preliminaryScore > best.preliminaryScore THEN scored[i] ELSE best)

\* A matcher that returns the best candidate whatever the classification.
matchTransaction_KeepsBest(row, candidates) ==
  IF Len(candidates) = 0
  THEN [matchedInvoiceId |-> Null, confidenceScore |-> 0, status |-> "UNMATCHED"]
  ELSE LET scoredCandidates == [i \in 1..Len(candidates) |-> scoreCandidate(row, candidates[i])]
           bestCandidate == bestOf(scoredCandidates, 2, scoredCandidates[1])
           confidenceScore == calculateConfidence(bestCandidate.nameSimilarity,
                                                  bestCandidate.dateScore, Len(candidates))
       IN [matchedInvoiceId |-> bestCandidate.invoice.id,
           confidenceScore |-> confidenceScore, status |-> determineStatus(confidenceScore)]

matchTransaction(row, candidates) ==
  IF Len(candidates) = 0
  THEN [matchedInvoiceId |-> Null, confidenceScore |-> 0, status |-> "UNMATCHED"]
  ELSE LET scoredCandidates == [i \in 1..Len(candidates) |-> scoreCandidate(row, candidates[i])]
           bestCandidate == bestOf(scoredCandidates, 2, scoredCandidates[1])
           confidenceScore == calculateConfidence(bestCandidate.nameSimilarity,
                                                  bestCandidate.dateScore, Len(candidates))
           status == determineStatus(confidenceScore)
       IN IF status = "UNMATCHED"
          THEN [matchedInvoiceId |-> Null, confidenceScore |-> confidenceScore,
                status |-> status]
          ELSE [matchedInvoiceId |-> bestCandidate.invoice.id,
                confidenceScore |-> confidenceScore, status |-> status]

(***************************************************************************)
(* Worker helpers (pure parts).                                            *)
(***************************************************************************)
\* parseAllRows: "error" when the file is gone or the first data row shows a
\* missing required column; otherwise the rows that pass the per-row checks.
RowIsValid(row) == row.amount > 0 /\ row.dateOk

parseAllRows(fs, filePath) ==
  IF filePath \notin DOMAIN fs THEN [ok |-> FALSE, rows |-> << >>]
  ELSE LET file == fs[filePath]
       IN IF ~file.header /\ Len(file.rows) > 0 THEN [ok |-> FALSE, rows |-> << >>]
          ELSE [ok |-> TRUE, rows |-> SelectSeq(file.rows, RowIsValid)]

\* fetchAllCandidateInvoices followed by invoicesByAmount.get(amountKey) || []
candidatesFor(amounts, amount) ==
  LET Wanted(inv) == inv.status # "paid" /\ inv.amount \in amounts /\ inv.amount = amount
  IN SelectSeq(Invoices, Wanted)

\* rows.map(...) of processReconciliationBatch, step 4
buildTransactions(batchId, rows) ==
  LET amounts == {rows[i].amount : i \in DOMAIN rows}
  IN [i \in DOMAIN rows |->
        LET result == matchTransaction(rows[i], candidatesFor(amounts, rows[i].amount))
        IN [uploadBatchId |-> batchId, status |-> STATUS_MAP[result.status],
            matchedInvoiceId |-> result.matchedInvoiceId,
            confidenceScore |-> result.confidenceScore]]

countStatus(transactions, status) ==
  Cardinality({i \in DOMAIN transactions : transactions[i].status = status})

VARIABLES batches, files, txs, nextTxId, clock, audit, mirror, cache, jobs, wrk, adm, rd, pg,
          call, resp

vars ==
  <<batches, files, txs, nextTxId, clock, audit, mirror, cache, jobs, wrk, adm, rd, pg, call,
    resp>>

(***************************************************************************)
(* Store helpers.                                                          *)
(***************************************************************************)
Restrict(f, S) == [x \in S |-> f[x]]
Extend(f, g) == [x \in DOMAIN f \cup DOMAIN g |-> IF x \in DOMAIN g THEN g[x] ELSE f[x]]

TxOfBatch(store, batchId) == {t \in DOMAIN store : store[t].uploadBatchId = batchId}

\* reconciliationBatch.create of createBatch
createBatch ==
  [status |-> "uploading", totalTransactions |-> 0, processedCount |-> 0,
   autoMatchedCount |-> 0, needsReviewCount |-> 0, unmatchedCount |-> 0,
   completedAt |-> FALSE]

\* A reset that leaves the rows of the previous attempt in place.
deleteBatchTransactions_Kept(store, batchId) == store

\* markBatchProcessing, first statement: bankTransaction.deleteMany
deleteBatchTransactions(store, batchId) ==
  Restrict(store, DOMAIN store \ TxOfBatch(store, batchId))

\* What deleting transactions does to the audit entries that reference
\* them: the entries stay (the audit log is append-only).
auditAfterDelete(log, deleted) == log

\* A reset that leaves completedAt as the previous attempt set it.
markBatchProcessing_KeepsCompletedAt(batch) ==
  [batch EXCEPT !.status = "processing", !.totalTransactions = 0, !.processedCount = 0,
                !.autoMatchedCount = 0, !.needsReviewCount = 0, !.unmatchedCount = 0]

\* markBatchProcessing, second statement: reconciliationBatch.update
markBatchProcessing(batch) ==
  [batch EXCEPT !.status = "processing", !.totalTransactions = 0, !.processedCount = 0,
                !.autoMatchedCount = 0, !.needsReviewCount = 0, !.unmatchedCount = 0,
                !.completedAt = FALSE]

markBatchCompleted(batch) == [batch EXCEPT !.status = "completed", !.completedAt = TRUE]

\* A failure handler that leaves the stored status as it was.
markBatchFailed_Unmarked(batch) == batch

markBatchFailed(batch) == [batch EXCEPT !.status = "failed", !.completedAt = TRUE]

\* Final counts that count every parsed row as processed but lose the
\* needs_review tally.
updateBatchFinalCounts_NoReview(batch, total, autoMatched, needsReview, unmatched) ==
  [batch EXCEPT !.totalTransactions = total, !.processedCount = total,
                !.autoMatchedCount = autoMatched, !.needsReviewCount = 0,
                !.unmatchedCount = unmatched]

updateBatchFinalCounts(batch, total, autoMatched, needsReview, unmatched) ==
  [batch EXCEPT !.totalTransactions = total, !.processedCount = total,
                !.autoMatchedCount = autoMatched, !.needsReviewCount = needsReview,
                !.unmatchedCount = unmatched]

\* bankTransaction.createMany: the rows get fresh ids first, first + 1, ...
\* and the timestamp of the statement as their createdAt.
bulkInsertTransactions(store, transactions, first, now) ==
  Extend(store, [id \in first..(first + Len(transactions) - 1) |->
                   [uploadBatchId |-> transactions[id - first + 1].uploadBatchId,
                    status |-> transactions[id - first + 1].status,
                    matchedInvoiceId |-> transactions[id - first + 1].matchedInvoiceId,
                    createdAt |-> now]])

AuditEntry(transactionId, action, previousInvoiceId, newInvoiceId, performedBy, reason) ==
  [transactionId |-> transactionId, action |-> action,
   previousInvoiceId |-> previousInvoiceId, newInvoiceId |-> newInvoiceId,
   performedBy |-> performedBy, reason |-> reason]

\* bulkInsertAuditLogs, the findMany: ids of the batch's auto_matched rows
autoMatchedOfBatch(store, batchId) ==
  {t \in TxOfBatch(store, batchId) : store[t].status = "auto_matched"}

\* select: { id, matchedInvoiceId } of those rows
foundIn(store, batchId) ==
  {[id |-> t, matchedInvoiceId |-> store[t].matchedInvoiceId]
     : t \in autoMatchedOfBatch(store, batchId)}

\* bulkInsertAuditLogs, the entries built from the rows read
workerAuditLogs(found) ==
  LET kept == {f \in found : f.matchedInvoiceId # Null}
  IN SetToBag({AuditEntry(f.id, "auto_matched", Null, f.matchedInvoiceId, "system", "auto")
                 : f \in kept})

(***************************************************************************)
(* The progress mirror (Redis hash batch:<id>:progress).                   *)
(***************************************************************************)
\* How a Redis call ends: done, skipped because the client is not
\* connected, or failed with an error.
RedisOutcomes == {"ok", "unavailable", "error"}

\* No hash under the key.  The fields hold what getCachedBatchProgress
\* parses from a field that is missing.
NoCache ==
  [present |-> FALSE, status |-> "unknown", totalTransactions |-> 0, processedCount |-> 0,
   autoMatchedCount |-> 0, needsReviewCount |-> 0, unmatchedCount |-> 0]

\* A wrapper that lets the error of the Redis call out.
safeRedisWrite_Propagates(current, written, outcome) ==
  [value |-> IF outcome = "ok" THEN written ELSE current, threw |-> outcome = "error"]

\* safeRedisWrite: the hash after the call, and whether the caller sees an
\* error.
safeRedisWrite(current, written, outcome) ==
  [value |-> IF outcome = "ok" THEN written ELSE current, threw |-> FALSE]

\* A wrapper that hands on what the call left behind when it failed.
safeRedisOperation_NoFallback(value, fallback, outcome) == value

\* safeRedisOperation: the value read, or the fallback.
safeRedisOperation(value, fallback, outcome) ==
  IF outcome = "ok" THEN value ELSE fallback

\* initBatchProgress(batchId): setCachedBatchProgress with every counter 0
initBatchProgress(current) ==
  [present |-> TRUE, status |-> "processing", totalTransactions |-> 0, processedCount |-> 0,
   autoMatchedCount |-> 0, needsReviewCount |-> 0, unmatchedCount |-> 0]

\* updateBatchStatus: hset of the one field, creating the hash if absent
updateBatchStatus(current, status) ==
  [current EXCEPT !.present = TRUE, !.status = status]

\* setTotalTransactions: hset of the one field, creating the hash if absent
setTotalTransactions(current, total) ==
  [current EXCEPT !.present = TRUE, !.totalTransactions = total]

\* getCachedBatchProgress: null (NoCache) when the hash is empty
getCachedBatchProgress(current) == IF current.present THEN current ELSE NoCache

(***************************************************************************)
(* Initial state: nothing uploaded, all workers and admin sessions idle.   *)
(***************************************************************************)
IdleWorker ==
  [pc |-> "idle", batchId |-> "b1", mode |-> "direct", rows |-> << >>,
   transactions |-> << >>, found |-> {}, error |-> "none", thrown |-> "none"]

NoRow == [status |-> "none", matchedInvoiceId |-> Null]

IdleAdmin ==
  [pc |-> "idle", op |-> "none", transactionId |-> 0, invoiceId |-> Null,
   batchId |-> "b1", transaction |-> NoRow, transactions |-> {},
   supplied |-> "absent", performedBy |-> "admin"]

\* The response (or thrown error) of the request or run that ended in the
\* latest step, if one did.
NoResp == [who |-> "none", op |-> "none", transactionId |-> 0, result |-> "none"]

NoJob == [state |-> "none", attemptsMade |-> 0, stalled |-> 0]

Readers == {"r1"}

\* A status request: idle, or between its read of the store and its read
\* of the mirror, holding the batch row it read.
IdleReader == [pc |-> "idle", batchId |-> "b1", batch |-> createBatch]

Pagers == {"p1"}

\* A client paging through a batch: the nextCursor of the last page it was
\* sent, and the time of the store when that page was read.
NoCursor == [enc |-> "absent"]

\* A client that follows nextCursor from the first page on keeps, besides,
\* the scan it is in: the batch, limit and status filter it asks with, the
\* ids of the rows that were stored (and passed the filter) when it asked
\* for the first page, and the rows it has been sent so far.
NoScan == [state |-> "none"]

NoPage == [cursor |-> NoCursor, issuedAt |-> 0, scan |-> NoScan]

\* A direct call of the matching engine: its arguments and, once it has
\* returned, its result.
NoCall == [state |-> "none"]

Init ==
  /\ batches = << >>
  /\ files = << >>
  /\ txs = << >>
  /\ nextTxId = 1
  /\ clock = 0
  /\ audit = EmptyBag
  /\ mirror = [b \in Batches |-> "none"]
  /\ cache = [b \in Batches |-> NoCache]
  /\ jobs = [b \in Batches |-> NoJob]
  /\ wrk = [w \in WorkerSlots |-> IdleWorker]
  /\ adm = [a \in Admins |-> IdleAdmin]
  /\ rd = [r \in Readers |-> IdleReader]
  /\ pg = [p \in Pagers |-> NoPage]
  /\ call = NoCall
  /\ resp = NoResp

(***************************************************************************)
(* Upload: POST /reconciliation/upload creates the batch and starts the    *)
(* processing in the background; with the queue, it enqueues a job.        *)
(***************************************************************************)
WorkerFree(w) == wrk[w].pc = "idle"

StartedWorker(batchId, mode) ==
  [IdleWorker EXCEPT !.pc = "begin", !.batchId = batchId, !.mode = mode]

Upload(b, csv, w) ==
  /\ b \notin DOMAIN batches
  /\ WorkerFree(w)
  /\ batches' = Extend(batches, [x \in {b} |-> createBatch])
  /\ files' = Extend(files, [x \in {b} |-> csv])
  /\ wrk' = [wrk EXCEPT ![w] = StartedWorker(b, "direct")]
  /\ UNCHANGED <<txs, nextTxId, clock, audit, mirror, cache, jobs, adm, rd, pg, call>>
  /\ resp' = NoResp

UploadQueued(b, csv) ==
  /\ b \notin DOMAIN batches
  /\ batches' = Extend(batches, [x \in {b} |-> createBatch])
  /\ files' = Extend(files, [x \in {b} |-> csv])
  /\ jobs' = [jobs EXCEPT ![b] = [state |-> "waiting", attemptsMade |-> 0, stalled |-> 0]]
  /\ UNCHANGED <<txs, nextTxId, clock, audit, mirror, cache, wrk, adm, rd, pg, call>>
  /\ resp' = NoResp

\* The queue hands a waiting job to a free worker.
JobStart(w, b) ==
  /\ jobs[b].state = "waiting"
  /\ WorkerFree(w)
  /\ jobs' = [jobs EXCEPT ![b].state = "active"]
  /\ wrk' = [wrk EXCEPT ![w] = StartedWorker(b, "job")]
  /\ UNCHANGED <<batches, files, txs, nextTxId, clock, audit, mirror, cache, adm, rd, pg, call>>
  /\ resp' = NoResp

\* The lock of an active job expires while its handler is still running
\* (lockDuration): the queue puts the job back to waiting, and the handler,
\* which goes on, no longer settles the job when it ends.
LockExpired(w) ==
  LET b == wrk[w].batchId IN
  /\ wrk[w].pc # "idle"
  /\ wrk[w].mode = "job"
  /\ jobs[b].state = "active"
  /\ jobs[b].stalled < MaxCrashes
  /\ jobs' = [jobs EXCEPT ![b].state = "waiting", ![b].stalled = jobs[b].stalled + 1]
  /\ wrk' = [wrk EXCEPT ![w].mode = "lost"]
  /\ UNCHANGED <<batches, files, txs, nextTxId, clock, audit, mirror, cache, adm, rd, pg, call>>
  /\ resp' = NoResp

(***************************************************************************)
(* processReconciliationBatch, one action per awaited call.                *)
(***************************************************************************)
Goto(w, pc) == wrk' = [wrk EXCEPT ![w].pc = pc]

Fail(w, kind) == wrk' = [wrk EXCEPT ![w].pc = "catch", ![w].error = kind]

\* A mirror write that is not awaited (void initBatchProgress, void
\* mark...InCache).  mirror holds the latest status the mirror was told for
\* the batch, cache what Redis holds afterwards.
MirrorWrite(w, batchId, status, pc) ==
  \E outcome \in RedisOutcomes :
    LET written == IF status = "processing" THEN initBatchProgress(cache[batchId])
                   ELSE updateBatchStatus(cache[batchId], status)
        r == safeRedisWrite(cache[batchId], written, outcome)
    IN /\ mirror' = [mirror EXCEPT ![batchId] = status]
       /\ cache' = [cache EXCEPT ![batchId] = r.value]
       /\ IF r.threw THEN Fail(w, "mirror") ELSE Goto(w, pc)

\* Step 1a: markBatchProcessing -> deleteMany
WDelete(w) ==
  LET b == wrk[w].batchId IN
  /\ wrk[w].pc = "begin"
  /\ \/ /\ txs' = deleteBatchTransactions(txs, b)
        /\ audit' = auditAfterDelete(audit, TxOfBatch(txs, b))
        /\ Goto(w, "reset")
     \/ /\ Fail(w, "store")
        /\ UNCHANGED <<txs, audit>>
  /\ UNCHANGED <<batches, files, nextTxId, clock, mirror, cache, jobs, adm, rd, pg, call>>
  /\ resp' = NoResp

\* Step 1b: markBatchProcessing -> update; then void initBatchProgress
WReset(w) ==
  LET b == wrk[w].batchId IN
  /\ wrk[w].pc = "reset"
  /\ \/ /\ batches' = [batches EXCEPT ![b] = markBatchProcessing(batches[b])]
        /\ MirrorWrite(w, b, "processing", "parse")
     \/ /\ Fail(w, "store")
        /\ UNCHANGED <<batches, mirror, cache>>
  /\ UNCHANGED <<files, txs, nextTxId, clock, audit, jobs, adm, rd, pg, call>>
  /\ resp' = NoResp

\* Step 2: parseAllRows; an empty result goes straight to markBatchCompleted
WParse(w) ==
  LET b == wrk[w].batchId
      parsed == parseAllRows(files, b) IN
  /\ wrk[w].pc = "parse"
  /\ IF ~parsed.ok THEN Fail(w, "parse")
     ELSE wrk' = [wrk EXCEPT ![w].rows = parsed.rows,
                             ![w].pc = IF Len(parsed.rows) = 0 THEN "complete" ELSE "fetch"]
  /\ UNCHANGED <<batches, files, txs, nextTxId, clock, audit, mirror, cache, jobs, adm, rd, pg, call>>
  /\ resp' = NoResp

\* Steps 3 and 4: fetchAllCandidateInvoices, then the matching of every row
WFetch(w) ==
  /\ wrk[w].pc = "fetch"
  /\ \/ wrk' = [wrk EXCEPT ![w].pc = "insert",
                           ![w].transactions = buildTransactions(wrk[w].batchId, wrk[w].rows)]
     \/ Fail(w, "store")
  /\ UNCHANGED <<batches, files, txs, nextTxId, clock, audit, mirror, cache, jobs, adm, rd, pg, call>>
  /\ resp' = NoResp

\* Step 5: bulkInsertTransactions
WInsert(w) ==
  /\ wrk[w].pc = "insert"
  /\ \/ /\ txs' = bulkInsertTransactions(txs, wrk[w].transactions, nextTxId, clock + 1)
        /\ nextTxId' = nextTxId + Len(wrk[w].transactions)
        /\ clock' = clock + 1
        /\ Goto(w, "auditFind")
     \/ /\ Fail(w, "store")
        /\ UNCHANGED <<txs, nextTxId, clock>>
  /\ UNCHANGED <<batches, files, audit, mirror, cache, jobs, adm, rd, pg, call>>
  /\ resp' = NoResp

\* Step 6a: bulkInsertAuditLogs -> findMany (returns early when nothing to log)
WAuditFind(w) ==
  LET b == wrk[w].batchId
      found == foundIn(txs, b) IN
  /\ wrk[w].pc = "auditFind"
  /\ \/ wrk' = [wrk EXCEPT ![w].found = found,
                           ![w].pc = IF BagCardinality(workerAuditLogs(found)) = 0
                                     THEN "counts" ELSE "auditInsert"]
     \/ Fail(w, "store")
  /\ UNCHANGED <<batches, files, txs, nextTxId, clock, audit, mirror, cache, jobs, adm, rd, pg, call>>
  /\ resp' = NoResp

\* Step 6b: bulkInsertAuditLogs -> matchAuditLog.createMany
WAuditInsert(w) ==
  /\ wrk[w].pc = "auditInsert"
  /\ \/ /\ audit' = audit (+) workerAuditLogs(wrk[w].found)
        /\ Goto(w, "counts")
     \/ /\ Fail(w, "store")
        /\ UNCHANGED audit
  /\ UNCHANGED <<batches, files, txs, nextTxId, clock, mirror, cache, jobs, adm, rd, pg, call>>
  /\ resp' = NoResp

\* Step 7: updateBatchFinalCounts
WCounts(w) ==
  LET b == wrk[w].batchId
      t == wrk[w].transactions IN
  /\ wrk[w].pc = "counts"
  /\ \/ /\ batches' = [batches EXCEPT ![b] =
                          updateBatchFinalCounts(batches[b], Len(wrk[w].rows),
                                                 countStatus(t, "auto_matched"),
                                                 countStatus(t, "needs_review"),
                                                 countStatus(t, "unmatched"))]
        /\ Goto(w, "complete")
     \/ /\ Fail(w, "store")
        /\ UNCHANGED batches
  /\ UNCHANGED <<files, txs, nextTxId, clock, audit, mirror, cache, jobs, adm, rd, pg, call>>
  /\ resp' = NoResp

\* Step 8 (and the early exit of step 2): markBatchCompleted, mirror completed
WComplete(w) ==
  LET b == wrk[w].batchId IN
  /\ wrk[w].pc = "complete"
  /\ \/ /\ batches' = [batches EXCEPT ![b] = markBatchCompleted(batches[b])]
        /\ IF Len(wrk[w].rows) = 0
           THEN MirrorWrite(w, b, "completed", "finally")
           ELSE \E o1, o2 \in RedisOutcomes :
                  LET first == safeRedisWrite(cache[b],
                                              updateBatchStatus(cache[b], "completed"), o1)
                      second == safeRedisWrite(first.value,
                                               setTotalTransactions(first.value,
                                                                    Len(wrk[w].rows)), o2)
                  IN /\ mirror' = [mirror EXCEPT ![b] = "completed"]
                     /\ cache' = [cache EXCEPT ![b] = second.value]
                     /\ IF first.threw \/ second.threw THEN Fail(w, "mirror")
                        ELSE Goto(w, "finally")
     \/ /\ Fail(w, "store")
        /\ UNCHANGED <<batches, mirror, cache>>
  /\ UNCHANGED <<files, txs, nextTxId, clock, audit, jobs, adm, rd, pg, call>>
  /\ resp' = NoResp

\* catch: await markBatchFailed; void markBatchFailedInCache; throw error.
\* When markBatchFailed itself throws, the rest of the block is skipped and
\* its error is the one that leaves the function.
WCatchMarked(w) ==
  LET b == wrk[w].batchId IN
  /\ wrk[w].pc = "catch"
  /\ batches' = [batches EXCEPT ![b] = markBatchFailed(batches[b])]
  /\ \E outcome \in RedisOutcomes :
       LET r == safeRedisWrite(cache[b], updateBatchStatus(cache[b], "failed"), outcome)
       IN /\ mirror' = [mirror EXCEPT ![b] = "failed"]
          /\ cache' = [cache EXCEPT ![b] = r.value]
          /\ wrk' = [wrk EXCEPT ![w].pc = "finally",
                                ![w].thrown = IF r.threw THEN "mirror" ELSE "original"]
  /\ UNCHANGED <<files, txs, nextTxId, clock, audit, jobs, adm, rd, pg, call>>
  /\ resp' = NoResp

WCatchThrows(w) ==
  /\ wrk[w].pc = "catch"
  /\ wrk' = [wrk EXCEPT ![w].pc = "finally", ![w].thrown = "markFailed"]
  /\ UNCHANGED <<batches, mirror, cache, files, txs, nextTxId, clock, audit, jobs, adm, rd, pg, call>>
  /\ resp' = NoResp

WCatch(w) == WCatchMarked(w) \/ WCatchThrows(w)

\* What the queue does with a job whose handler returned or threw.
jobSettled(job, threw) ==
  IF ~threw THEN [job EXCEPT !.state = "completed"]
  ELSE IF job.attemptsMade + 1 < QueueAttempts
       THEN [job EXCEPT !.state = "waiting", !.attemptsMade = job.attemptsMade + 1]
       ELSE [job EXCEPT !.state = "failed", !.attemptsMade = job.attemptsMade + 1]

\* A cleanup that leaves the file where it is.
unlink_Skipped(fs, filePath) == fs

\* fs/promises unlink(filePath); that the file is already gone is an error
\* the finally block ignores.
unlink(fs, filePath) == Restrict(fs, DOMAIN fs \ {filePath})

\* finally: unlink(filePath), errors ignored; then the promise settles.
WFinally(w) ==
  LET b == wrk[w].batchId IN
  /\ wrk[w].pc = "finally"
  /\ files' = unlink(files, b)
  /\ wrk' = [wrk EXCEPT ![w] = IdleWorker]
  /\ jobs' = IF wrk[w].mode = "job"
             THEN [jobs EXCEPT ![b] = jobSettled(jobs[b], wrk[w].thrown # "none")]
             ELSE jobs
  /\ resp' = [who |-> w, op |-> "run", transactionId |-> 0,
              result |-> IF wrk[w].thrown = "none" THEN "returned" ELSE "threw"]
  /\ UNCHANGED <<batches, txs, nextTxId, clock, audit, mirror, cache, adm, rd, pg, call>>

\* The worker process is killed in the middle of a run: nothing of the run
\* executes any more; the queue sees the job stall and delivers it again.
Crash(w) ==
  LET b == wrk[w].batchId IN
  /\ wrk[w].pc # "idle"
  /\ wrk[w].mode = "job" => jobs[b].stalled < MaxCrashes
  /\ wrk' = [wrk EXCEPT ![w] = IdleWorker]
  /\ jobs' = IF wrk[w].mode = "job"
             THEN [jobs EXCEPT ![b].state = "waiting", ![b].stalled = jobs[b].stalled + 1]
             ELSE jobs
  /\ UNCHANGED <<batches, files, txs, nextTxId, clock, audit, mirror, cache, adm, rd, pg, call>>
  /\ resp' = NoResp

WorkerStep(w) ==
  \/ WDelete(w) \/ WReset(w) \/ WParse(w) \/ WFetch(w) \/ WInsert(w)
  \/ WAuditFind(w) \/ WAuditInsert(w) \/ WCounts(w) \/ WComplete(w)
  \/ WCatch(w) \/ WFinally(w)

(***************************************************************************)
(* Admin actions (transaction.service.ts).  A request first reads and      *)
(* validates outside any database transaction, then runs one               *)
(* prisma.$transaction.                                                    *)
(***************************************************************************)
RowOps == {"confirm", "reject", "manual_match", "mark_external"}

\* req.body.performedBy as a request may carry it: not in the body, the empty
\* string, the worker's name, a user's name.
NoPerformedBy == "absent"
PerformedBy == {NoPerformedBy, "", "system", "alice"}

\* The route handlers' default: req.body.performedBy || 'admin' in confirm, the
\* destructuring default performedBy = 'admin' in the other routes.
routePerformedBy(op, supplied) ==
  IF op = "confirm"
  THEN IF supplied \in {NoPerformedBy, ""} THEN "admin" ELSE supplied
  ELSE IF supplied = NoPerformedBy THEN "admin" ELSE supplied

AllowedStatuses(op) ==
  CASE op = "confirm" -> CONFIRMABLE_STATUSES
    [] op = "reject" -> REJECTABLE_STATUSES
    [] op = "manual_match" -> MANUAL_MATCHABLE_STATUSES
    [] op = "mark_external" -> EXTERNAL_MARKABLE_STATUSES

\* A validation that lets every status through.
validateStatusTransition_Any(currentStatus, allowedStatuses) == TRUE

\* TRUE when the call may go on, FALSE when it throws AppError.badRequest
validateStatusTransition(currentStatus, allowedStatuses) ==
  currentStatus \in allowedStatuses

\* An invoice check that lets every id through.
validateInvoiceExists_Any(invoiceId) == TRUE

\* validateInvoiceExists: FALSE where it throws AppError.badRequest
validateInvoiceExists(invoiceId) == invoiceId \in InvoiceIds

\* An audit write that appends nothing.
createAuditLog_Skip(log, params) == log

\* An audit write that replaces the transaction's earlier entries.
createAuditLog_Upsert(log, params) ==
  LET kept == {e \in BagToSet(log) : e.transactionId # params.transactionId}
  IN [e \in kept |-> log[e]] (+) SetToBag({params})

\* createAuditLog(params, tx): one row appended through the given client
createAuditLog(log, params) == log (+) SetToBag({params})

\* createAuditLogsBatch(entries, tx): one row per entry
createAuditLogsBatch(log, entries) == log (+) SetToBag(entries)

\* The body of each $transaction: the row as updated and the audit entry.
\* `transaction` is the row as read before the $transaction began.
confirmMatch(row, transactionId, transaction, performedBy) ==
  [row |-> [row EXCEPT !.status = "confirmed"],
   entry |-> AuditEntry(transactionId, "confirmed", transaction.matchedInvoiceId,
                        transaction.matchedInvoiceId, performedBy, "none")]

\* A reject that leaves the matched invoice on the row.
rejectMatch_KeepInvoice(row, transactionId, transaction, performedBy) ==
  [row |-> [row EXCEPT !.status = "unmatched"],
   entry |-> AuditEntry(transactionId, "rejected", transaction.matchedInvoiceId,
                        Null, performedBy, "none")]

rejectMatch(row, transactionId, transaction, performedBy) ==
  [row |-> [row EXCEPT !.status = "unmatched", !.matchedInvoiceId = Null],
   entry |-> AuditEntry(transactionId, "rejected", transaction.matchedInvoiceId,
                        Null, performedBy, "none")]

manualMatch(row, transactionId, invoiceId, transaction, performedBy) ==
  [row |-> [row EXCEPT !.status = "confirmed", !.matchedInvoiceId = invoiceId],
   entry |-> AuditEntry(transactionId, "manual_matched", transaction.matchedInvoiceId,
                        invoiceId, performedBy, "none")]

markExternal(row, transactionId, transaction, performedBy) ==
  [row |-> [row EXCEPT !.status = "external", !.matchedInvoiceId = Null],
   entry |-> AuditEntry(transactionId, "marked_external", transaction.matchedInvoiceId,
                        Null, performedBy, "none")]

adminBody(op, row, transactionId, invoiceId, transaction, performedBy) ==
  CASE op = "confirm" -> confirmMatch(row, transactionId, transaction, performedBy)
    [] op = "reject" -> rejectMatch(row, transactionId, transaction, performedBy)
    [] op = "manual_match" ->
         manualMatch(row, transactionId, invoiceId, transaction, performedBy)
    [] op = "mark_external" -> markExternal(row, transactionId, transaction, performedBy)

\* bulkConfirmAutoMatched, the updateMany: id in transactionIds and status
\* auto_matched at the time of the update
bulkUpdateMany(store, transactionIds) ==
  [t \in DOMAIN store |->
     IF t \in transactionIds /\ store[t].status = "auto_matched"
     THEN [store[t] EXCEPT !.status = "confirmed"]
     ELSE store[t]]

\* bulkConfirmAutoMatched, the audit entries: one per row read beforehand
bulkAuditEntries(transactions, performedBy) ==
  {AuditEntry(t.id, "confirmed", t.matchedInvoiceId, t.matchedInvoiceId, performedBy, "bulk")
     : t \in transactions}

\* bulkConfirmAutoMatched, the value returned after the $transaction
bulkConfirmResult(transactions) ==
  LET transactionIds == {t.id : t \in transactions}
  IN [confirmedCount |-> Cardinality(transactionIds), transactionIds |-> transactionIds]

AdminFree(a) == adm[a].pc = "idle"

\* The request of session a ends with the given result.
Respond(a, op, t, result) ==
  /\ adm' = [adm EXCEPT ![a] = IdleAdmin]
  /\ resp' = [who |-> a, op |-> op, transactionId |-> t, result |-> result]

Finish(a, result) == Respond(a, adm[a].op, adm[a].transactionId, result)

\* getTransactionOrThrow and validateStatusTransition of a per-row action
AdminCall(a, op, t, invoiceId, supplied) ==
  /\ AdminFree(a)
  /\ IF t \notin DOMAIN txs
     THEN Respond(a, op, t, "not_found")
     ELSE IF ~validateStatusTransition(txs[t].status, AllowedStatuses(op))
     THEN Respond(a, op, t, "bad_request")
     ELSE /\ adm' = [adm EXCEPT ![a] =
                       [IdleAdmin EXCEPT !.pc = IF op = "manual_match" THEN "invoice"
                                                ELSE "tx",
                                         !.op = op, !.transactionId = t,
                                         !.supplied = supplied,
                                         !.performedBy = routePerformedBy(op, supplied),
                                         !.invoiceId = IF op = "manual_match"
                                                       THEN invoiceId ELSE Null,
                                         !.transaction = [status |-> txs[t].status,
                                                          matchedInvoiceId |->
                                                            txs[t].matchedInvoiceId]]]
          /\ resp' = NoResp
  /\ UNCHANGED <<batches, files, txs, nextTxId, clock, audit, mirror, cache, jobs, wrk, rd, pg, call>>

\* manualMatch: validateInvoiceExists
AdminInvoice(a) ==
  /\ adm[a].pc = "invoice"
  /\ IF validateInvoiceExists(adm[a].invoiceId)
     THEN adm' = [adm EXCEPT ![a].pc = "tx"] /\ resp' = NoResp
     ELSE Finish(a, "bad_request")
  /\ UNCHANGED <<batches, files, txs, nextTxId, clock, audit, mirror, cache, jobs, wrk, rd, pg, call>>

\* prisma.$transaction of a per-row action: the update (which throws when
\* the row is gone), then createAuditLog; a failure of either rolls back.
AdminTx(a) ==
  LET t == adm[a].transactionId IN
  /\ adm[a].pc = "tx"
  /\ \/ /\ t \in DOMAIN txs
        /\ LET body == adminBody(adm[a].op, txs[t], t, adm[a].invoiceId,
                                 adm[a].transaction, adm[a].performedBy)
           IN /\ txs' = [txs EXCEPT ![t] = body.row]
              /\ audit' = createAuditLog(audit, body.entry)
        /\ Finish(a, "ok")
     \/ /\ Finish(a, "error")
        /\ UNCHANGED <<txs, audit>>
  /\ UNCHANGED <<batches, files, nextTxId, clock, mirror, cache, jobs, wrk, rd, pg, call>>

\* bulkConfirmAutoMatched: the batch lookup and the findMany.  Batches are
\* never deleted, so the two reads are taken as one step.
AdminBulkCall(a, b, supplied) ==
  /\ AdminFree(a)
  /\ LET found == foundIn(txs, b)
     IN IF b \notin DOMAIN batches
        THEN Respond(a, "bulk", 0, "not_found")
        ELSE IF found = {}
        THEN Respond(a, "bulk", 0, "ok")
        ELSE /\ adm' = [adm EXCEPT ![a] = [IdleAdmin EXCEPT !.pc = "bulkTx", !.op = "bulk",
                                                            !.batchId = b,
                                                            !.supplied = supplied,
                                                            !.performedBy =
                                                              routePerformedBy("bulk", supplied),
                                                            !.transactions = found]]
             /\ resp' = NoResp
  /\ UNCHANGED <<batches, files, txs, nextTxId, clock, audit, mirror, cache, jobs, wrk, rd, pg, call>>

\* bulkConfirmAutoMatched: the $transaction (updateMany, createAuditLogsBatch)
AdminBulkTx(a) ==
  LET transactionIds == {t.id : t \in adm[a].transactions} IN
  /\ adm[a].pc = "bulkTx"
  /\ \/ /\ txs' = bulkUpdateMany(txs, transactionIds)
        /\ audit' = createAuditLogsBatch(audit, bulkAuditEntries(adm[a].transactions,
                                                                  adm[a].performedBy))
        /\ Finish(a, "ok")
     \/ /\ Finish(a, "error")
        /\ UNCHANGED <<txs, audit>>
  /\ UNCHANGED <<batches, files, nextTxId, clock, mirror, cache, jobs, wrk, rd, pg, call>>

\* Transaction ids a request may name: the existing ones and one that does
\* not exist.
RequestIds == DOMAIN txs \cup {nextTxId}

\* The requests an admin may send, with the performedBy their body carries.
AdminRequestBy(a, supplied) ==
  \/ \E op \in RowOps \ {"manual_match"}, t \in RequestIds :
       AdminCall(a, op, t, Null, supplied)
  \/ \E t \in RequestIds, i \in SuppliedInvoiceIds :
       AdminCall(a, "manual_match", t, i, supplied)
  \/ \E b \in Batches : AdminBulkCall(a, b, supplied)

\* Requests without performedBy in the body.
AdminRequest(a) == AdminRequestBy(a, NoPerformedBy)

AdminStep(a) ==
  \/ AdminRequest(a)
  \/ AdminInvoice(a)
  \/ AdminTx(a)
  \/ AdminBulkTx(a)

(***************************************************************************)
(* Batch status requests (GET /reconciliation/:batchId -> getBatchStatus). *)
(***************************************************************************)
\* A status built from the stored counters and the mirror's total.
getBatchStatus_MixedSources(batch, cachedProgress) ==
  [status |-> batch.status,
   totalTransactions |-> IF cachedProgress.present THEN cachedProgress.totalTransactions
                         ELSE batch.totalTransactions,
   processedCount |-> batch.processedCount,
   autoMatchedCount |-> batch.autoMatchedCount,
   needsReviewCount |-> batch.needsReviewCount,
   unmatchedCount |-> batch.unmatchedCount,
   completedAt |-> batch.completedAt]

\* getBatchStatus after its reads: cachedProgress is NoCache when the
\* mirror was not consulted, had nothing or could not be read.
getBatchStatus(batch, cachedProgress) ==
  [status |-> batch.status,
   totalTransactions |-> IF cachedProgress.present /\ cachedProgress.totalTransactions > 0
                         THEN cachedProgress.totalTransactions
                         ELSE batch.totalTransactions,
   processedCount |-> IF cachedProgress.present THEN cachedProgress.processedCount
                      ELSE batch.processedCount,
   autoMatchedCount |-> IF cachedProgress.present THEN cachedProgress.autoMatchedCount
                        ELSE batch.autoMatchedCount,
   needsReviewCount |-> IF cachedProgress.present THEN cachedProgress.needsReviewCount
                        ELSE batch.needsReviewCount,
   unmatchedCount |-> IF cachedProgress.present THEN cachedProgress.unmatchedCount
                      ELSE batch.unmatchedCount,
   completedAt |-> batch.completedAt]

StatusResponse(r, b, view) ==
  [who |-> r, op |-> "status", transactionId |-> 0, result |-> "ok", batchId |-> b,
   view |-> view]

\* A status request that asks the mirror whatever the stored status is.
consultsMirror_Always(batch) == TRUE

\* preferCache && batch.status === 'processing' (preferCache is left at
\* its default by every route)
consultsMirror(batch) == batch.status = "processing"

\* reconciliationBatch.findUnique; the mirror is consulted only for a batch
\* read as processing.
ReadCall(r, b) ==
  /\ rd[r].pc = "idle"
  /\ IF b \notin DOMAIN batches
     THEN /\ resp' = [who |-> r, op |-> "status", transactionId |-> 0,
                      result |-> "not_found"]
          /\ UNCHANGED rd
     ELSE IF ~consultsMirror(batches[b])
     THEN /\ resp' = StatusResponse(r, b, getBatchStatus(batches[b], NoCache))
          /\ UNCHANGED rd
     ELSE /\ rd' = [rd EXCEPT ![r] = [pc |-> "cache", batchId |-> b, batch |-> batches[b]]]
          /\ resp' = NoResp
  /\ UNCHANGED <<batches, files, txs, nextTxId, clock, audit, mirror, cache, jobs, wrk, adm, pg, call>>

\* await getCachedBatchProgress(batchId), then the response is built
ReadCache(r) ==
  /\ rd[r].pc = "cache"
  /\ \E outcome \in RedisOutcomes :
       LET cachedProgress == safeRedisOperation(getCachedBatchProgress(cache[rd[r].batchId]),
                                               NoCache, outcome)
       IN resp' = StatusResponse(r, rd[r].batchId,
                                 getBatchStatus(rd[r].batch, cachedProgress))
  /\ rd' = [rd EXCEPT ![r] = IdleReader]
  /\ UNCHANGED <<batches, files, txs, nextTxId, clock, audit, mirror, cache, jobs, wrk, adm, pg, call>>

ReaderStep(r) == (\E b \in Batches : ReadCall(r, b)) \/ ReadCache(r)

\* The hash of a batch expires (TTL of one hour set by setCachedBatchProgress).
CacheExpire(b) ==
  /\ cache[b].present
  /\ cache' = [cache EXCEPT ![b] = NoCache]
  /\ UNCHANGED <<batches, files, txs, nextTxId, clock, audit, mirror, jobs, wrk, adm, rd, pg, call>>
  /\ resp' = NoResp

(***************************************************************************)
(* Cursor pagination: GET /reconciliation/:batchId/transactions.           *)
(* Text is modelled by its structure: an id is its sequence of characters, *)
(* a date text is its form and the instant it denotes, JSON text and       *)
(* base64url text are the value they carry, or garbage.                    *)
(***************************************************************************)
DEFAULT_LIMIT == 50

MAX_LIMIT == 100

\* /^[0-9a-f-]{36}$/i: the length the id check asks for
ID_LENGTH == 36

\* The characters of ids, in code-point order.
Chars == <<"-", "0", "1", "2", "3", "4", "5", "6", "7", "8", "9",
           "a", "b", "c", "d", "e", "f", "z">>

\* The place of each character in that order.
CharRanks ==
  [ch \in {Chars[k] : k \in DOMAIN Chars} |-> CHOOSE k \in DOMAIN Chars : Chars[k] = ch]

CharRank(ch) == CharRanks[ch]

HexOrDash == {Chars[k] : k \in 1..17}

Rep(ch, n) == [k \in 1..n |-> ch]

\* The id texts of rows 0 to 15: UUIDs (8-4-4-4-12) in the order of the rows.
Uuids ==
  [k \in 0..15 |->
     LET h == Chars[k + 2] IN
     Rep(h, 8) \o <<"-">> \o Rep(h, 4) \o <<"-">> \o Rep(h, 4) \o <<"-">> \o Rep(h, 4)
       \o <<"-">> \o Rep(h, 12)]

uuid(k) == Uuids[k]

\* a < b for two texts, character by character from position k
RECURSIVE textLess(_, _, _)
textLess(a, b, k) ==
  IF k > Len(b) THEN FALSE
  ELSE IF k > Len(a) THEN TRUE
  ELSE IF a[k] = b[k] THEN textLess(a, b, k + 1)
  ELSE CharRank(a[k]) < CharRank(b[k])

\* A Date object of instant t, and date.toISOString()
Date(t) == [form |-> "Date", t |-> t]

toISOString(date) == [form |-> "iso", t |-> date.t]

\* The forms of date text that new Date(text) understands: the ISO form
\* and the RFC 2822 form ("Mon, 15 Jan 2024 10:30:00 GMT").
ParsedForms == {"iso", "rfc2822"}

\* new Date(text): valid is !isNaN(date.getTime())
newDate(text) == [valid |-> text.form \in ParsedForms, t |-> text.t]

EmptyText == [form |-> "empty", t |-> 0]

JSONstringify(value) == [syntax |-> "json", value |-> value]

NotJson == [syntax |-> "garbage", value |-> << >>]

\* JSON.parse(text): throws on anything but JSON
JSONparse(text) ==
  [threw |-> text.syntax # "json", value |-> text.value]

base64url(text) == [enc |-> "base64url", text |-> text]

\* Buffer.from(cursor, 'base64url').toString('utf-8'): never throws; what
\* was not an encoding of JSON text decodes to bytes that are not JSON.
fromBase64url(cursor) == IF cursor.enc = "base64url" THEN cursor.text ELSE NotJson

\* encodeCursor(createdAt, id): createdAt is a Date or a date text
encodeCursor(createdAt, id) ==
  base64url(JSONstringify(
    [createdAt |-> IF createdAt.form # "Date" THEN createdAt ELSE toISOString(createdAt),
     id |-> id]))

BadCursor == [ok |-> FALSE, createdAt |-> EmptyText, id |-> << >>]

\* !parsed.createdAt, !parsed.id: the field is absent or the empty text
falsy(parsed, field, empty) == field \notin DOMAIN parsed \/ parsed[field] = empty

\* The id check of decodeCursor.
idTest(id) == Len(id) = ID_LENGTH /\ \A k \in DOMAIN id : id[k] \in HexOrDash

\* decodeCursor(cursor): ok is FALSE where it throws
\* AppError.badRequest('Invalid pagination cursor')
decodeCursor(cursor) ==
  LET parsed == JSONparse(fromBase64url(cursor)) IN
  IF parsed.threw THEN BadCursor
  ELSE IF \/ falsy(parsed.value, "createdAt", EmptyText)
          \/ falsy(parsed.value, "id", << >>)
  THEN BadCursor
  ELSE IF ~newDate(parsed.value.createdAt).valid THEN BadCursor
  ELSE IF ~idTest(parsed.value.id) THEN BadCursor
  ELSE [ok |-> TRUE, createdAt |-> parsed.value.createdAt, id |-> parsed.value.id]

\* validateLimit(limit): limit 0 stands for an absent, empty or
\* non-positive parameter
validateLimit(limit) == IF limit < 1 THEN DEFAULT_LIMIT ELSE Min(limit, MAX_LIMIT)

\* A cursor condition that lets the row of the cursor itself through.
buildCursorWhereClause_Inclusive(createdAt, id, cursor) ==
  LET cursorDate == newDate(cursor.createdAt).t IN
  \/ createdAt < cursorDate
  \/ createdAt = cursorDate /\ ~textLess(cursor.id, id, 1)

\* The cursor condition (getBatchTransactionsCursor repeats it inline):
\* createdAt < cursorDate OR (createdAt = cursorDate AND id < cursor.id)
buildCursorWhereClause(createdAt, id, cursor) ==
  LET cursorDate == newDate(cursor.createdAt).t IN
  \/ createdAt < cursorDate
  \/ createdAt = cursorDate /\ textLess(id, cursor.id, 1)

NoFilter == "none"

validStatuses ==
  {"auto_matched", "needs_review", "unmatched", "confirmed", "external", "pending"}

\* orderBy: [{createdAt: 'desc'}, {id: 'desc'}]
RECURSIVE orderByDesc(_, _)
orderByDesc(store, S) ==
  IF S = {} THEN << >>
  ELSE LET first == CHOOSE a \in S : \A b \in S \ {a} :
                      \/ store[a].createdAt > store[b].createdAt
                      \/ /\ store[a].createdAt = store[b].createdAt
                         /\ textLess(uuid(b), uuid(a), 1)
       IN <<first>> \o orderByDesc(store, S \ {first})

\* A transaction as a page shows it.
PageRow(store, t) ==
  [id |-> uuid(t), createdAt |-> store[t].createdAt, status |-> store[t].status]

\* The rows of the batch that the where clause of a page lets through.
pageWhere(store, batchId, cursor, status) ==
  {t \in TxOfBatch(store, batchId) :
     /\ status # NoFilter => store[t].status = status
     /\ cursor.ok => buildCursorWhereClause(store[t].createdAt, uuid(t), cursor)}

\* bankTransaction.findMany({where, take, orderBy}): the rows read
findManyPage(store, batchId, take, cursor, status) ==
  LET sorted == orderByDesc(store, pageWhere(store, batchId, cursor, status))
  IN SubSeq(sorted, 1, Min(take, Len(sorted)))

\* A page that is sent untrimmed, with every row that was read.
getBatchTransactionsCursor_Untrimmed(store, batchId, limit, cursor, status) ==
  LET data == findManyPage(store, batchId, limit + 1, cursor, status)
      hasMore == Len(data) > limit
  IN [data |-> [i \in DOMAIN data |-> PageRow(store, data[i])],
      nextCursor |-> IF hasMore /\ Len(data) > 0
                     THEN encodeCursor(Date(store[data[Len(data)]].createdAt),
                                       uuid(data[Len(data)]))
                     ELSE NoCursor,
      hasMore |-> hasMore]

\* getBatchTransactionsCursor(batchId, {limit, cursor, status}); cursor is
\* a decoded cursor, or BadCursor when the request had none.
getBatchTransactionsCursor(store, batchId, limit, cursor, status) ==
  LET transactions == findManyPage(store, batchId, limit + 1, cursor, status)
      hasMore == Len(transactions) > limit
      data == IF hasMore THEN SubSeq(transactions, 1, limit) ELSE transactions
      lastRecord == store[data[Len(data)]]
  IN [data |-> [i \in DOMAIN data |-> PageRow(store, data[i])],
      nextCursor |-> IF hasMore /\ Len(data) > 0
                     THEN base64url(JSONstringify(
                            [createdAt |-> toISOString(Date(lastRecord.createdAt)),
                             id |-> uuid(data[Len(data)])]))
                     ELSE NoCursor,
      hasMore |-> hasMore]

PageError(p, raw, result) ==
  [who |-> p, op |-> "page", transactionId |-> 0, result |-> result, raw |-> raw]

\* The cursors that requests arrive with, besides the one a client was
\* sent: text that is no encoding, an encoding of text that is not JSON,
\* of JSON without an id, with an empty date, with text that is no date,
\* with an id that is too short or has other characters, with a date in
\* another form, with an id of 36 dashes, and two well-formed cursors.
CursorInputs ==
  {[enc |-> "plain", text |-> NotJson],
   base64url(NotJson),
   base64url(JSONstringify([createdAt |-> toISOString(Date(1))])),
   base64url(JSONstringify([createdAt |-> EmptyText, id |-> uuid(1)])),
   base64url(JSONstringify([createdAt |-> [form |-> "words", t |-> 0], id |-> uuid(1)])),
   base64url(JSONstringify([createdAt |-> toISOString(Date(1)),
                            id |-> <<"a", "-", "d">>])),
   base64url(JSONstringify([createdAt |-> toISOString(Date(1)),
                            id |-> Rep("z", ID_LENGTH)])),
   base64url(JSONstringify([createdAt |-> [form |-> "rfc2822", t |-> 1], id |-> uuid(2)])),
   base64url(JSONstringify([createdAt |-> toISOString(Date(1)),
                            id |-> Rep("-", ID_LENGTH)])),
   encodeCursor(Date(1), uuid(2)),
   encodeCursor(toISOString(Date(2)), uuid(1))}

StatusInputs == {NoFilter, "auto_matched", "bogus"}

\* The route: the batch is looked up, limit, cursor and status filter are
\* validated, the page is read in one findMany.  A client keeps the last
\* nextCursor it was sent.
PageResponse(p, b, raw, limitParam, status) ==
  IF b \notin DOMAIN batches THEN PageError(p, raw, "not_found")
  ELSE IF raw # NoCursor /\ ~decodeCursor(raw).ok THEN PageError(p, raw, "invalid_cursor")
  ELSE IF status # NoFilter /\ status \notin validStatuses
  THEN PageError(p, raw, "invalid_status")
  ELSE LET cursor == IF raw = NoCursor THEN BadCursor ELSE decodeCursor(raw)
           result == getBatchTransactionsCursor(txs, b, validateLimit(limitParam),
                                                cursor, status)
       IN [who |-> p, op |-> "page", transactionId |-> 0, result |-> "ok",
           raw |-> raw, data |-> result.data,
           nextCursor |-> result.nextCursor, hasMore |-> result.hasMore]

\* What the client holds after a response: the nextCursor, when it got one.
Held(p, response) ==
  IF response.result # "ok" \/ response.nextCursor = NoCursor THEN pg
  ELSE [pg EXCEPT ![p].cursor = response.nextCursor, ![p].issuedAt = clock]

PageCall(p, b, raw, limitParam, status) ==
  /\ resp' = PageResponse(p, b, raw, limitParam, status)
  /\ pg' = Held(p, resp')
  /\ UNCHANGED <<batches, files, txs, nextTxId, clock, audit, mirror, cache, jobs, wrk, adm,
                 rd, call>>

\* The limits asked for: none (0) and one row a page.
LimitInputs == {0, 1}

\* The cursors of the requests that arrive while batches are processed:
\* none, the one the client was sent, a well-formed one of another client.
PageCursors(p) == {NoCursor, pg[p].cursor, encodeCursor(Date(1), uuid(2))}

\* A well-formed request, with or without a status filter.
PageStep(p) ==
  \E b \in Batches, raw \in PageCursors(p), limitParam \in LimitInputs,
     status \in StatusInputs \cap (validStatuses \cup {NoFilter}) :
    PageCall(p, b, raw, limitParam, status)

\* The first page of a scan: a request without cursor.
ScanStart(p) ==
  \E b \in Batches, limitParam \in LimitInputs, status \in {NoFilter, "auto_matched"} :
    /\ pg[p].scan.state = "none"
    /\ b \in DOMAIN batches
    /\ resp' = PageResponse(p, b, NoCursor, limitParam, status)
    /\ pg' = [Held(p, resp') EXCEPT ![p].scan =
               [state |-> IF resp'.hasMore THEN "open" ELSE "done",
                batchId |-> b, limit |-> limitParam, status |-> status,
                cursor |-> resp'.nextCursor,
                existing |-> {uuid(t) : t \in pageWhere(txs, b, BadCursor, status)},
                seen |-> resp'.data]]
    /\ UNCHANGED <<batches, files, txs, nextTxId, clock, audit, mirror, cache, jobs, wrk,
                   adm, rd, call>>

\* The next page of a scan: the same request with the nextCursor of the
\* page before.
ScanNext(p) ==
  /\ pg[p].scan.state = "open"
  /\ resp' = PageResponse(p, pg[p].scan.batchId, pg[p].scan.cursor, pg[p].scan.limit,
                          pg[p].scan.status)
  /\ pg' = [Held(p, resp') EXCEPT ![p].scan =
             IF resp'.result # "ok" THEN [@ EXCEPT !.state = "failed"]
             ELSE [@ EXCEPT !.state = IF resp'.hasMore THEN "open" ELSE "done",
                            !.cursor = resp'.nextCursor,
                            !.seen = @ \o resp'.data]]
  /\ UNCHANGED <<batches, files, txs, nextTxId, clock, audit, mirror, cache, jobs, wrk,
                 adm, rd, call>>

ScanStep(p) == ScanStart(p) \/ ScanNext(p)

\* A request with any cursor of CursorInputs and any status of StatusInputs.
CursorStep(p) ==
  \E b \in Batches, raw \in CursorInputs, limitParam \in LimitInputs,
     status \in StatusInputs :
    PageCall(p, b, raw, limitParam, status)

(***************************************************************************)
(* Direct calls of matchTransaction: a transaction, given by its           *)
(* similarity to the customer names of invoices 1, 2 and 3 and by its      *)
(* distance in days to their due dates, and a list of candidates.          *)
(***************************************************************************)
SimilarityInputs == {0, pts(40), 59994, 59995, pts(90), 94994, 94995, pts(100)}

DayInputs == {0, 20, 45}

MatchRows ==
  {[amount |-> 2, dateOk |-> TRUE, descOk |-> TRUE, nameSimilarity |-> <<s1, s2, s3, 0>>,
    days |-> <<20, d2, d3, 0>>] :
     s1 \in {0, pts(100)}, s2 \in SimilarityInputs, s3 \in SimilarityInputs,
     d2 \in DayInputs, d3 \in DayInputs}

\* The lists of up to three different invoices out of invoices 1, 2 and 3.
CandidateLists ==
  LET I == {Invoices[1], Invoices[2], Invoices[3]} IN
  {<< >>} \cup {<<a>> : a \in I}
    \cup {s \in {<<a, b>> : a \in I, b \in I} : s[1] # s[2]}
    \cup {s \in {<<a, b, c>> : a \in I, b \in I, c \in I} :
            s[1] # s[2] /\ s[1] # s[3] /\ s[2] # s[3]}

InitMatch ==
  /\ batches = << >>
  /\ files = << >>
  /\ txs = << >>
  /\ nextTxId = 1
  /\ clock = 0
  /\ audit = EmptyBag
  /\ mirror = [b \in Batches |-> "none"]
  /\ cache = [b \in Batches |-> NoCache]
  /\ jobs = [b \in Batches |-> NoJob]
  /\ wrk = [w \in WorkerSlots |-> IdleWorker]
  /\ adm = [a \in Admins |-> IdleAdmin]
  /\ rd = [r \in Readers |-> IdleReader]
  /\ pg = [p \in Pagers |-> NoPage]
  /\ \E row \in MatchRows, candidates \in CandidateLists :
       call = [state |-> "called", row |-> row, candidates |-> candidates]
  /\ resp = NoResp

(***************************************************************************)
(* Name normalisation (normalizeName).  A text is a sequence of            *)
(* characters; a value that is not a string has a type other than          *)
(* "string".                                                               *)
(***************************************************************************)
\* The characters of the texts tried: lower and upper case letters, a
\* letter whose upper case is two letters, punctuation, a space and a tab.
NameChars == {"t", "o", "O", "-", " ", "\t", "ß"}

Whitespace == {" ", "\t"}

\* [A-Z0-9]
UpperOrDigit == {"T", "O", "S"}

\* The members of NOISE_WORDS that the characters above can spell.
NOISE_WORDS == {<<"T", "O">>}

\* String.prototype.toUpperCase
toUpperCase(text) ==
  LET upper(c) == CASE c = "t" -> <<"T">>
                    [] c = "o" -> <<"O">>
                    [] c = "ß" -> <<"S", "S">>
                    [] OTHER -> <<c>>
      RECURSIVE from(_)
      from(i) == IF i > Len(text) THEN << >> ELSE upper(text[i]) \o from(i + 1)
  IN from(1)

\* replace(/[^A-Z0-9\s]/g, ' ')
replacePunctuation(text) ==
  [i \in DOMAIN text |-> IF text[i] \in UpperOrDigit \cup Whitespace THEN text[i] ELSE " "]

\* split(/\s+/): the pieces between runs of whitespace, the empty pieces
\* at either end included.
splitWhitespace(text) ==
  LET RECURSIVE from(_, _)
      from(i, piece) ==
        IF i > Len(text) THEN <<piece>>
        ELSE IF text[i] \in Whitespace
        THEN IF i > 1 /\ text[i - 1] \in Whitespace
             THEN from(i + 1, piece)
             ELSE <<piece>> \o from(i + 1, << >>)
        ELSE from(i + 1, Append(piece, text[i]))
  IN from(1, << >>)

\* A join that puts nothing between the words.
join_NoSeparator(words) ==
  LET RECURSIVE from(_)
      from(i) == IF i > Len(words) THEN << >> ELSE words[i] \o from(i + 1)
  IN from(1)

\* words.join(' ')
join(words) ==
  LET RECURSIVE from(_)
      from(i) == IF i > Len(words) THEN << >>
                 ELSE IF i = 1 THEN words[i] \o from(i + 1)
                 ELSE <<" ">> \o words[i] \o from(i + 1)
  IN from(1)

\* A value handed to normalizeName.
StringValue(text) == [type |-> "string", text |-> text]

normalizeName(input) ==
  IF input.type # "string" \/ input.text = << >> THEN << >>
  ELSE LET normalized == replacePunctuation(toUpperCase(input.text))
           Keep(word) == word # << >> /\ word \notin NOISE_WORDS
           words == SelectSeq(splitWhitespace(normalized), Keep)
       IN join(words)

RECURSIVE TextsOfLength(_)
TextsOfLength(n) ==
  IF n = 0 THEN {<< >>}
  ELSE {Append(text, c) : text \in TextsOfLength(n - 1), c \in NameChars}

\* Every text of up to MaxName characters, and values that are no strings.
NormalizeInputs ==
  {StringValue(text) : text \in UNION {TextsOfLength(n) : n \in 0..MaxName}}
    \cup {[type |-> k, text |-> << >>] : k \in {"undefined", "null", "number", "object"}}

InitNormalize ==
  /\ batches = << >>
  /\ files = << >>
  /\ txs = << >>
  /\ nextTxId = 1
  /\ clock = 0
  /\ audit = EmptyBag
  /\ mirror = [b \in Batches |-> "none"]
  /\ cache = [b \in Batches |-> NoCache]
  /\ jobs = [b \in Batches |-> NoJob]
  /\ wrk = [w \in WorkerSlots |-> IdleWorker]
  /\ adm = [a \in Admins |-> IdleAdmin]
  /\ rd = [r \in Readers |-> IdleReader]
  /\ pg = [p \in Pagers |-> NoPage]
  /\ \E input \in NormalizeInputs : call = [state |-> "given", input |-> input]
  /\ resp = NoResp

\* normalizeName applied to the input, and again to what it returned.
Normalize ==
  /\ call.state = "given"
  /\ LET once == normalizeName(call.input)
     IN call' = [state |-> "normalized", input |-> call.input, once |-> once,
                 twice |-> normalizeName(StringValue(once))]
  /\ UNCHANGED <<batches, files, txs, nextTxId, clock, audit, mirror, cache, jobs, wrk, adm,
                 rd, pg, resp>>

\* Direct calls of calculateConfidence: name scores as the name scorer
\* yields them (hundredths) and finer ones, every date score, and candidate
\* counts from none to more than three.
NameInputs ==
  SimilarityInputs \cup {pts(5), 5250, pts(50), 64990, pts(85), 89996, pts(95), 99990}

DateScoreInputs == {DATE_SCORES[k] : k \in DOMAIN DATE_SCORES}

CountInputs == 0..4

InitConfidence ==
  /\ batches = << >>
  /\ files = << >>
  /\ txs = << >>
  /\ nextTxId = 1
  /\ clock = 0
  /\ audit = EmptyBag
  /\ mirror = [b \in Batches |-> "none"]
  /\ cache = [b \in Batches |-> NoCache]
  /\ jobs = [b \in Batches |-> NoJob]
  /\ wrk = [w \in WorkerSlots |-> IdleWorker]
  /\ adm = [a \in Admins |-> IdleAdmin]
  /\ rd = [r \in Readers |-> IdleReader]
  /\ pg = [p \in Pagers |-> NoPage]
  /\ \E nameSimilarity \in NameInputs, dateScore \in DateScoreInputs,
        candidateCount \in CountInputs :
       call = [state |-> "asked", nameSimilarity |-> nameSimilarity,
               dateScore |-> dateScore, candidateCount |-> candidateCount]
  /\ resp = NoResp

Confidence ==
  /\ call.state = "asked"
  /\ call' = [call EXCEPT !.state = "answered"] @@
              [confidenceScore |-> calculateConfidence(call.nameSimilarity, call.dateScore,
                                                       call.candidateCount)]
  /\ UNCHANGED <<batches, files, txs, nextTxId, clock, audit, mirror, cache, jobs, wrk, adm,
                 rd, pg, resp>>

\* calculateDateScore(transactionDate, dueDate) called on its own: two
\* instants, at the start and near the end of days on both sides of every
\* threshold, in a process east of, at and west of UTC.
DayInputsOfScore == {0, 1, 3, 4, 7, 8, 15, 16, 30, 31, 45}

InstantInputs == {d * HOURS_PER_DAY + h : d \in DayInputsOfScore, h \in {0, 23}}

ZoneInputs == {0 - 5, 0, 5}

InitDateScore ==
  /\ batches = << >>
  /\ files = << >>
  /\ txs = << >>
  /\ nextTxId = 1
  /\ clock = 0
  /\ audit = EmptyBag
  /\ mirror = [b \in Batches |-> "none"]
  /\ cache = [b \in Batches |-> NoCache]
  /\ jobs = [b \in Batches |-> NoJob]
  /\ wrk = [w \in WorkerSlots |-> IdleWorker]
  /\ adm = [a \in Admins |-> IdleAdmin]
  /\ rd = [r \in Readers |-> IdleReader]
  /\ pg = [p \in Pagers |-> NoPage]
  /\ \E transactionDate \in InstantInputs, dueDate \in InstantInputs, tz \in ZoneInputs :
       call = [state |-> "dates", transactionDate |-> transactionDate, dueDate |-> dueDate,
               tz |-> tz]
  /\ resp = NoResp

DateScore ==
  /\ call.state = "dates"
  /\ call' = [call EXCEPT !.state = "scored"] @@
              [dateScore |-> calculateDateScore(
                               daysBetween(call.transactionDate, call.dueDate, call.tz))]
  /\ UNCHANGED <<batches, files, txs, nextTxId, clock, audit, mirror, cache, jobs, wrk, adm,
                 rd, pg, resp>>

Match ==
  /\ call.state = "called"
  /\ call' = [state |-> "returned", row |-> call.row, candidates |-> call.candidates,
              result |-> matchTransaction(call.row, call.candidates)]
  /\ UNCHANGED <<batches, files, txs, nextTxId, clock, audit, mirror, cache, jobs, wrk, adm,
                 rd, pg, resp>>

(***************************************************************************)
(* The store as one background run of processReconciliationBatch leaves    *)
(* it: the state in which admin requests normally arrive.                  *)
(***************************************************************************)
AfterRun(b, csv) ==
  LET parsed == parseAllRows([x \in {b} |-> csv], b)
      transactions == buildTransactions(b, parsed.rows)
      store == bulkInsertTransactions(<< >>, transactions, 1, 1)
      started == markBatchProcessing(createBatch)
      progress == initBatchProgress(NoCache)
  IN IF ~parsed.ok
     THEN [batch |-> markBatchFailed(started), txs |-> << >>, audit |-> EmptyBag,
           mirror |-> "failed", cache |-> updateBatchStatus(progress, "failed")]
     ELSE IF Len(parsed.rows) = 0
     THEN [batch |-> markBatchCompleted(started), txs |-> << >>, audit |-> EmptyBag,
           mirror |-> "completed", cache |-> updateBatchStatus(progress, "completed")]
     ELSE [batch |-> markBatchCompleted(
                       updateBatchFinalCounts(started, Len(parsed.rows),
                                              countStatus(transactions, "auto_matched"),
                                              countStatus(transactions, "needs_review"),
                                              countStatus(transactions, "unmatched"))),
           txs |-> store,
           audit |-> workerAuditLogs(foundIn(store, b)),
           mirror |-> "completed",
           cache |-> setTotalTransactions(updateBatchStatus(progress, "completed"),
                                          Len(parsed.rows))]

InitAdmin ==
  \E csv \in CsvFiles :
    LET run == AfterRun("b1", csv) IN
    /\ batches = [x \in {"b1"} |-> run.batch]
    /\ files = << >>
    /\ txs = run.txs
    /\ nextTxId = Cardinality(DOMAIN run.txs) + 1
    /\ clock = IF run.txs = << >> THEN 0 ELSE 1
    /\ audit = run.audit
    /\ mirror = [b \in Batches |-> run.mirror]
    /\ cache = [b \in Batches |-> run.cache]
    /\ jobs = [b \in Batches |-> NoJob]
    /\ wrk = [w \in WorkerSlots |-> IdleWorker]
    /\ adm = [a \in Admins |-> IdleAdmin]
    /\ rd = [r \in Readers |-> IdleReader]
    /\ pg = [p \in Pagers |-> NoPage]
    /\ call = NoCall
    /\ resp = NoResp

\* A batch that an earlier attempt brought to completed, with its job
\* delivered once more: either that attempt was killed after
\* markBatchCompleted and before its finally block (the CSV is still on
\* disk), or its lock had expired and it ran to its end (the CSV is gone).
InitRedeliver ==
  \E csv \in CsvFiles, onDisk \in BOOLEAN :
    LET run == AfterRun("b1", csv) IN
    /\ run.batch.status = "completed"
    /\ batches = [x \in {"b1"} |-> run.batch]
    /\ files = IF onDisk THEN [x \in {"b1"} |-> csv] ELSE << >>
    /\ txs = run.txs
    /\ nextTxId = Cardinality(DOMAIN run.txs) + 1
    /\ clock = IF run.txs = << >> THEN 0 ELSE 1
    /\ audit = run.audit
    /\ mirror = [b \in Batches |-> run.mirror]
    /\ cache = [b \in Batches |-> run.cache]
    /\ jobs = [b \in Batches |-> [state |-> "waiting", attemptsMade |-> 0, stalled |-> 1]]
    /\ wrk = [w \in WorkerSlots |-> IdleWorker]
    /\ adm = [a \in Admins |-> IdleAdmin]
    /\ rd = [r \in Readers |-> IdleReader]
    /\ pg = [p \in Pagers |-> NoPage]
    /\ call = NoCall
    /\ resp = NoResp

(***************************************************************************)
(* Specifications.                                                         *)
(*   Spec       uploads processed in the background of the upload request, *)
(*              with the requests of one admin arriving at any time.       *)
(*   SpecAdmin  concurrent admin requests on a processed batch.            *)
(*   SpecQueue  uploads processed through the retrying queue, with worker  *)
(*              crashes and redelivery.                                    *)
(*   SpecLive   uploads of either kind under fairness, for liveness.       *)
(*   SpecRead   SpecQueue with status requests and mirror expiry.          *)
(*   SpecPage   queue-driven runs with clients paging through the          *)
(*              transactions.                                              *)
(*   SpecCursor page requests with well-formed and malformed cursors on a  *)
(*              processed batch.                                           *)
(*   SpecAudit  SpecQueue with the requests of one admin arriving at any   *)
(*              time, also while the batch is processing.                  *)
(*   SpecActor  the requests of one admin on a processed batch, with the   *)
(*              performedBy of the request body varied.                    *)
(*   SpecNormalize  direct calls of normalizeName.                         *)
(*   SpecOverlap  queue-driven runs in two job slots, where the lock of a  *)
(*              running attempt may expire and the job be delivered again. *)
(*   SpecRedeliver  the job of a completed batch delivered once more.      *)
(*   SpecMatch  direct calls of matchTransaction.                          *)
(*   SpecConfidence  direct calls of calculateConfidence.                  *)
(***************************************************************************)
Next ==
  \/ \E b \in Batches, csv \in CsvFiles, w \in Workers : Upload(b, csv, w)
  \/ \E w \in Workers : WorkerStep(w)
  \/ AdminStep("a1")

Spec == Init /\ [][Next]_vars

NextAdmin == \E a \in Admins : AdminStep(a)

SpecAdmin == InitAdmin /\ [][NextAdmin]_vars

NextQueue ==
  \/ \E b \in Batches, csv \in CsvFiles : UploadQueued(b, csv)
  \/ \E w \in Workers, b \in Batches : JobStart(w, b)
  \/ \E w \in Workers : WorkerStep(w)
  \/ \E w \in Workers : Crash(w)

SpecQueue == Init /\ [][NextQueue]_vars

\* Uploads of either kind with the event loop and the queue kept running
\* (weak fairness) and a store that answers the markBatchFailed of a catch
\* block; nothing kills the process.
WorkerStepLive(w) ==
  \/ WDelete(w) \/ WReset(w) \/ WParse(w) \/ WFetch(w) \/ WInsert(w)
  \/ WAuditFind(w) \/ WAuditInsert(w) \/ WCounts(w) \/ WComplete(w)
  \/ WCatchMarked(w) \/ WFinally(w)

Progress ==
  \/ \E w \in Workers, b \in Batches : JobStart(w, b)
  \/ \E w \in Workers : WorkerStepLive(w)

NextLive ==
  \/ \E b \in Batches, csv \in CsvFiles, w \in Workers : Upload(b, csv, w)
  \/ \E b \in Batches, csv \in CsvFiles : UploadQueued(b, csv)
  \/ Progress

SpecLive == Init /\ [][NextLive]_vars /\ WF_vars(Progress)

\* Queue-driven runs with status requests arriving at any time.
NextRead ==
  \/ NextQueue
  \/ \E r \in Readers : ReaderStep(r)
  \/ \E b \in Batches : CacheExpire(b)

SpecRead == Init /\ [][NextRead]_vars

\* Queue-driven runs with page requests arriving at any time.
NextPage ==
  \/ NextQueue
  \/ \E p \in Pagers : PageStep(p)

SpecPage == Init /\ [][NextPage]_vars

\* Page requests with every kind of cursor on a processed batch.
NextCursor == \E p \in Pagers : PageStep(p) \/ CursorStep(p)

SpecCursor == InitAdmin /\ [][NextCursor]_vars

\* Queue-driven runs, crashes and redelivery, with admin requests.
\* The uploads are one-row files, one of each classification.
AuditFiles ==
  {[header |-> TRUE, rows |-> <<RowAuto>>],
   [header |-> TRUE, rows |-> <<RowReview>>],
   [header |-> TRUE, rows |-> <<RowLow>>]}

NextAudit ==
  \/ \E b \in Batches, csv \in AuditFiles : UploadQueued(b, csv)
  \/ \E w \in Workers, b \in Batches : JobStart(w, b)
  \/ \E w \in Workers : WorkerStep(w)
  \/ \E w \in Workers : Crash(w)
  \/ BagCardinality(audit) < MaxAudit /\ AdminRequest("a1")
  \/ AdminInvoice("a1") \/ AdminTx("a1") \/ AdminBulkTx("a1")

SpecAudit == Init /\ [][NextAudit]_vars

\* The requests of one admin on a processed batch, with every kind of
\* performedBy in the body.
NextActor ==
  \/ \E supplied \in PerformedBy : AdminRequestBy("a1", supplied)
  \/ AdminInvoice("a1") \/ AdminTx("a1") \/ AdminBulkTx("a1")

SpecActor == InitAdmin /\ [][NextActor]_vars

\* The name normaliser called on its own.
NextNormalize == Normalize

SpecNormalize == InitNormalize /\ [][NextNormalize]_vars

\* Queue-driven runs in both job slots, with locks that expire under a
\* running handler.
OverlapFiles ==
  {[header |-> TRUE, rows |-> <<RowAuto>>],
   [header |-> TRUE, rows |-> <<RowReview, RowLow>>]}

NextOverlap ==
  \/ \E b \in Batches, csv \in OverlapFiles : UploadQueued(b, csv)
  \/ \E w \in WorkerSlots, b \in Batches : JobStart(w, b)
  \/ \E w \in WorkerSlots : WorkerStep(w)
  \/ \E w \in WorkerSlots : LockExpired(w)

SpecOverlap == Init /\ [][NextOverlap]_vars

\* A client scanning a batch while runs in both job slots delete and insert
\* its rows.  The start is a queued upload whose handler, in the first
\* slot, has reset the batch and matched the rows when the lock of its job
\* expires: the handler goes on to insert, and the job has just been handed
\* to the second slot.
ScanFiles == {[header |-> TRUE, rows |-> <<RowAuto, RowReview>>]}

InitScan ==
  \E csv \in ScanFiles :
    LET rows == parseAllRows([x \in {"b1"} |-> csv], "b1").rows IN
    /\ batches = [x \in {"b1"} |-> markBatchProcessing(createBatch)]
    /\ files = [x \in {"b1"} |-> csv]
    /\ txs = << >>
    /\ nextTxId = 1
    /\ clock = 0
    /\ audit = EmptyBag
    /\ mirror = [b \in Batches |-> "processing"]
    /\ cache = [b \in Batches |-> initBatchProgress(NoCache)]
    /\ jobs = [b \in Batches |-> [state |-> "active", attemptsMade |-> 0, stalled |-> 1]]
    /\ wrk = [w \in WorkerSlots |->
               IF w = "w1"
               THEN [IdleWorker EXCEPT !.pc = "insert", !.batchId = "b1", !.mode = "lost",
                                       !.rows = rows,
                                       !.transactions = buildTransactions("b1", rows)]
               ELSE StartedWorker("b1", "job")]
    /\ adm = [a \in Admins |-> IdleAdmin]
    /\ rd = [r \in Readers |-> IdleReader]
    /\ pg = [p \in Pagers |-> NoPage]
    /\ call = NoCall
    /\ resp = NoResp

NextScan ==
  \/ \E w \in WorkerSlots : WorkerStep(w)
  \/ \E p \in Pagers : ScanStep(p)

SpecScan == InitScan /\ [][NextScan]_vars

\* The attempt that a second delivery of a completed batch's job starts.
NextRedeliver ==
  \/ \E w \in Workers, b \in Batches : JobStart(w, b)
  \/ \E w \in Workers : WorkerStep(w)

SpecRedeliver == InitRedeliver /\ [][NextRedeliver]_vars

\* The matching engine called on its own.
NextMatch == Match

SpecMatch == InitMatch /\ [][NextMatch]_vars

\* The confidence combiner called on its own.
NextConfidence == Confidence

SpecConfidence == InitConfidence /\ [][NextConfidence]_vars

\* The date scorer called on its own.
NextDateScore == DateScore

SpecDateScore == InitDateScore /\ [][NextDateScore]_vars

(***************************************************************************)
(* Properties of the admin state machine.                                  *)
(***************************************************************************)
ActionOf(op) ==
  CASE op = "confirm" -> "confirmed"
    [] op = "reject" -> "rejected"
    [] op = "manual_match" -> "manual_matched"
    [] op = "mark_external" -> "marked_external"
    [] op = "bulk" -> "confirmed"

\* Number of audit entries of a transaction with a given action.
RECURSIVE SumCopies(_, _)
SumCopies(B, S) ==
  IF S = {} THEN 0
  ELSE LET e == CHOOSE x \in S : TRUE
       IN CopiesIn(e, B) + SumCopies(B, S \ {e})

AuditCount(log, t, action) ==
  SumCopies(log, {e \in BagToSet(log) : e.transactionId = t /\ e.action = action})

\* Session a commits or aborts its $transaction in this step.
TxEnds(a) == adm[a].pc \in {"tx", "bulkTx"} /\ adm'[a].pc = "idle"

\* C1: a confirmed transaction has a matched invoice; an unmatched or
\* external transaction has none.
C1_StatusInvoiceInvariant ==
  \A t \in DOMAIN txs :
    /\ txs[t].status = "confirmed" => txs[t].matchedInvoiceId # Null
    /\ txs[t].status \in {"unmatched", "external"} => txs[t].matchedInvoiceId = Null

\* C2: a successful admin $transaction changes the row and appends exactly
\* one audit entry with that transaction id and the matching action in the
\* same step; a failed one changes neither table; and no step changes the
\* status of a row without appending a matching audit entry for it.
C2_PerRowStep(a) ==
  (adm[a].pc = "tx" /\ adm'[a].pc = "idle") =>
    IF resp'.result = "ok"
    THEN /\ BagCardinality(audit') = BagCardinality(audit) + 1
         /\ AuditCount(audit', adm[a].transactionId, ActionOf(adm[a].op))
              = AuditCount(audit, adm[a].transactionId, ActionOf(adm[a].op)) + 1
    ELSE txs' = txs /\ audit' = audit

C2_BulkAbortStep(a) ==
  (adm[a].pc = "bulkTx" /\ adm'[a].pc = "idle" /\ resp'.result # "ok") =>
    (txs' = txs /\ audit' = audit)

C2_StatusChangeAudited(t) ==
  txs'[t].status # txs[t].status =>
    \E a \in Admins :
      /\ TxEnds(a)
      /\ AuditCount(audit', t, ActionOf(adm[a].op))
           = AuditCount(audit, t, ActionOf(adm[a].op)) + 1

C2_Step ==
  /\ \A a \in Admins : C2_PerRowStep(a)
  /\ \A a \in Admins : C2_BulkAbortStep(a)
  /\ \A t \in DOMAIN txs \cap DOMAIN txs' : C2_StatusChangeAudited(t)

C2_AuditAtomicity == [][C2_Step]_vars

C2_Witness ==
  /\ resp.result = "ok"
  /\ resp.op = "reject"
  /\ resp.transactionId \in DOMAIN txs
  /\ txs[resp.transactionId].status = "unmatched"
  /\ AuditCount(audit, resp.transactionId, "rejected") = 1

\* C3: a per-row admin call made while the status of the row is outside the
\* allowed-from set of the action ends with a bad-request error at once,
\* and the rows and the audit table stay as they are.
C3_Step(a) ==
  /\ (adm[a].pc = "idle" /\ adm'[a].pc \in {"tx", "invoice"}) =>
       txs[adm'[a].transactionId].status \in AllowedStatuses(adm'[a].op)
  /\ (/\ adm[a].pc = "idle"
      /\ resp'.who = a
      /\ resp'.op \in RowOps
      /\ resp'.transactionId \in DOMAIN txs
      /\ txs[resp'.transactionId].status \notin AllowedStatuses(resp'.op))
     => (resp'.result = "bad_request" /\ txs' = txs /\ audit' = audit)

C3_InvalidStateRejected == [][\A a \in Admins : C3_Step(a)]_vars

C3_Witness ==
  /\ resp.result = "bad_request"
  /\ resp.op = "mark_external"
  /\ resp.transactionId \in DOMAIN txs
  /\ txs[resp.transactionId].status = "confirmed"

\* C4: an action whose allowed-from set does not contain the status the row
\* has when its UPDATE executes changes neither the row nor the audit table.
C4_Step(a) ==
  (/\ adm[a].pc = "tx"
   /\ adm'[a].pc = "idle"
   /\ adm[a].transactionId \in DOMAIN txs
   /\ txs[adm[a].transactionId].status \notin AllowedStatuses(adm[a].op))
  => (txs' = txs /\ audit' = audit)

C4_GuardAtUpdate == [][\A a \in Admins : C4_Step(a)]_vars

\* C5: a transaction confirmed by bulk_confirm_auto has exactly one audit
\* entry with action confirmed, whatever ran concurrently.
C5_BulkConfirmOnce ==
  \A e \in BagToSet(audit) :
    (e.action = "confirmed" /\ e.reason = "bulk") =>
      AuditCount(audit, e.transactionId, "confirmed") = 1

\* The transition table: the row an action must produce from a row.
TableRow(op, row, invoiceId) ==
  CASE op = "confirm" -> [row EXCEPT !.status = "confirmed"]
    [] op = "reject" -> [row EXCEPT !.status = "unmatched", !.matchedInvoiceId = Null]
    [] op = "manual_match" ->
         [row EXCEPT !.status = "confirmed", !.matchedInvoiceId = invoiceId]
    [] op = "mark_external" ->
         [row EXCEPT !.status = "external", !.matchedInvoiceId = Null]

\* No other request is working on transaction t while session a is.
Alone(a, t) ==
  \A o \in Admins \ {a} :
    \/ adm[o].pc = "idle"
    \/ adm[o].pc \in {"tx", "invoice"} /\ adm[o].transactionId # t
    \/ adm[o].pc = "bulkTx" /\ t \notin {x.id : x \in adm[o].transactions}

\* C6: an admin action that succeeds with nothing else running on the row
\* (the row is still as the action read it) moves the row from a status of
\* its allowed-from set exactly as the transition table says and touches no
\* other row.
C6_Step(a) ==
  LET t == adm[a].transactionId IN
  (/\ adm[a].pc = "tx"
   /\ adm'[a].pc = "idle"
   /\ resp'.result = "ok"
   /\ Alone(a, t)
   /\ txs[t].status = adm[a].transaction.status
   /\ txs[t].matchedInvoiceId = adm[a].transaction.matchedInvoiceId)
  => /\ txs[t].status \in AllowedStatuses(adm[a].op)
     /\ txs' = [txs EXCEPT ![t] = TableRow(adm[a].op, txs[t], adm[a].invoiceId)]
     /\ adm[a].op = "manual_match" => adm[a].invoiceId \in InvoiceIds

C6_TransitionTable == [][\A a \in Admins : C6_Step(a)]_vars

C6_Witness ==
  /\ resp.result = "ok"
  /\ resp.op = "mark_external"
  /\ resp.transactionId \in DOMAIN txs
  /\ txs[resp.transactionId].status = "external"
  /\ \A a \in Admins : adm[a].pc = "idle"

(***************************************************************************)
(* Properties of the processing run.                                       *)
(***************************************************************************)
\* The statuses and matched invoices of the rows of a batch, ids left out.
RowBag(store, b) ==
  LET ids == TxOfBatch(store, b)
      kinds == {[status |-> store[t].status, matchedInvoiceId |-> store[t].matchedInvoiceId]
                  : t \in ids}
  IN [k \in kinds |->
        Cardinality({t \in ids : store[t].status = k.status
                                  /\ store[t].matchedInvoiceId = k.matchedInvoiceId})]

\* C7: a batch stored as completed or failed has
\* processed = auto_matched + needs_review + unmatched, no counter negative.
C7_TerminalCounters ==
  \A b \in DOMAIN batches :
    batches[b].status \in {"completed", "failed"} =>
      /\ batches[b].processedCount
           = batches[b].autoMatchedCount + batches[b].needsReviewCount
             + batches[b].unmatchedCount
      /\ batches[b].totalTransactions >= 0
      /\ batches[b].processedCount >= 0
      /\ batches[b].autoMatchedCount >= 0
      /\ batches[b].needsReviewCount >= 0
      /\ batches[b].unmatchedCount >= 0

\* A run failed at markBatchCompleted, after the counters of two rows, one
\* of them for review, had been stored.
C7_Witness ==
  \E b \in DOMAIN batches :
    /\ batches[b].status = "failed"
    /\ batches[b].processedCount = 2
    /\ batches[b].needsReviewCount = 1

\* C8: when a run that met an error reaches the end of its catch block, the
\* batch is stored as failed with completedAt set, the mirror holds failed,
\* and the error leaving the run is the one that made the step fail.
C8_FailureMarked ==
  \A w \in Workers :
    (wrk[w].pc = "finally" /\ wrk[w].error # "none") =>
      /\ batches[wrk[w].batchId].status = "failed"
      /\ batches[wrk[w].batchId].completedAt
      /\ mirror[wrk[w].batchId] = "failed"
      /\ wrk[w].thrown = "original"

\* C9: a run that ends without error, whatever earlier deliveries of the
\* job were cut short, leaves the batch and its rows as one uninterrupted
\* run on the same file does.
C9_RerunSameResult ==
  \A w \in Workers :
    (wrk[w].pc = "finally" /\ wrk[w].error = "none") =>
      LET b == wrk[w].batchId
          first == AfterRun(b, files[b]) IN
      /\ batches[b] = first.batch
      /\ RowBag(txs, b) = RowBag(first.txs, b)
      /\ Cardinality(TxOfBatch(txs, b)) = batches[b].processedCount

\* A redelivered job ends without error after a killed delivery had
\* already inserted the rows of the file.
C9_Witness ==
  \E w \in Workers :
    /\ wrk[w].pc = "finally"
    /\ wrk[w].error = "none"
    /\ wrk[w].mode = "job"
    /\ jobs[wrk[w].batchId].stalled >= 1
    /\ Len(wrk[w].transactions) = 2
    /\ nextTxId = 2 * Len(wrk[w].transactions) + 1

\* C10: a retry of a job whose file an earlier attempt had parsed and
\* inserted, and which itself meets no store error, ends with the batch
\* completed.
C10_RetryCompletes ==
  \A w \in Workers :
    (/\ wrk[w].pc = "finally"
     /\ wrk[w].mode = "job"
     /\ jobs[wrk[w].batchId].attemptsMade >= 1
     /\ nextTxId > 1
     /\ wrk[w].error # "store"
     /\ wrk[w].thrown # "markFailed")
    => batches[wrk[w].batchId].status = "completed"

C12_Step(w) ==
  (wrk[w].pc # "idle" /\ wrk'[w].pc = "idle" /\ resp'.op = "run") =>
    /\ wrk[w].pc = "finally"
    /\ wrk[w].batchId \notin DOMAIN files'

C12_FileCleanedOnExit == [][\A w \in Workers : C12_Step(w)]_vars

\* A run has thrown after its markBatchFailed failed (the batch is still
\* stored as processing) and the file is gone.
C12_Witness ==
  /\ resp.op = "run"
  /\ resp.result = "threw"
  /\ "b1" \in DOMAIN batches
  /\ batches["b1"].status = "processing"
  /\ "b1" \notin DOMAIN files

\* C13: no run fails or throws because of the mirror, and a first run that
\* ends without error leaves the batch, its transactions and the audit
\* entries exactly as a run with a healthy mirror does, whatever became of
\* its mirror writes.
C13_MirrorNeverPropagates ==
  \A w \in Workers :
    /\ wrk[w].error # "mirror"
    /\ wrk[w].thrown # "mirror"
    /\ (/\ wrk[w].pc = "finally"
        /\ wrk[w].error = "none"
        /\ jobs[wrk[w].batchId].stalled = 0
        /\ jobs[wrk[w].batchId].attemptsMade = 0)
       => LET healthy == AfterRun(wrk[w].batchId, files[wrk[w].batchId]) IN
          /\ batches[wrk[w].batchId] = healthy.batch
          /\ txs = healthy.txs
          /\ audit = healthy.audit

\* A run of two rows ends without error although every one of its mirror
\* writes was lost.
C13_Witness ==
  \E w \in Workers :
    /\ wrk[w].pc = "finally"
    /\ wrk[w].error = "none"
    /\ Len(wrk[w].rows) = 2
    /\ jobs[wrk[w].batchId].stalled = 0
    /\ ~cache[wrk[w].batchId].present
    /\ batches[wrk[w].batchId].status = "completed"

StatusReturned == resp.op = "status" /\ resp.result = "ok"

\* C14: a status response for a batch read as completed or failed carries
\* no counter above the stored one, whatever the mirror holds.
C14_TerminalViewWithinStore ==
  (StatusReturned /\ resp.view.status \in {"completed", "failed"}) =>
    LET stored == batches[resp.batchId] IN
    /\ resp.view.totalTransactions <= stored.totalTransactions
    /\ resp.view.processedCount <= stored.processedCount
    /\ resp.view.autoMatchedCount <= stored.autoMatchedCount
    /\ resp.view.needsReviewCount <= stored.needsReviewCount
    /\ resp.view.unmatchedCount <= stored.unmatchedCount

\* A failed batch with stored total 0 is reported while the mirror still
\* holds the total of an earlier run.
C14_Witness ==
  /\ StatusReturned
  /\ resp.view.status = "failed"
  /\ batches[resp.batchId].totalTransactions = 0
  /\ cache[resp.batchId].present
  /\ cache[resp.batchId].totalTransactions = 2

\* C15: processed <= total in every stored batch and in every status
\* response.
C15_ProcessedWithinTotal ==
  /\ \A b \in DOMAIN batches : batches[b].processedCount <= batches[b].totalTransactions
  /\ StatusReturned => resp.view.processedCount <= resp.view.totalTransactions

\* A response for a processing batch that combines the mirror's counters
\* (still 0) with the stored total (2), the mirror's total being 0.
C15_Witness ==
  /\ StatusReturned
  /\ resp.view.status = "processing"
  /\ resp.view.processedCount = 0
  /\ resp.view.totalTransactions = 2
  /\ batches[resp.batchId].processedCount = 2
  /\ cache[resp.batchId].present
  /\ cache[resp.batchId].totalTransactions = 0

\* C16: completedAt is set exactly when the stored status is completed or
\* failed.
C16_CompletedAtIffTerminal ==
  \A b \in DOMAIN batches :
    batches[b].completedAt <=> batches[b].status \in {"completed", "failed"}

\* A batch that had failed (the mirror still says so) has been reset by a
\* retry: it is processing and completedAt is null again.
C16_Witness ==
  \E b \in DOMAIN batches :
    /\ batches[b].status = "processing"
    /\ ~batches[b].completedAt
    /\ jobs[b].attemptsMade >= 1
    /\ cache[b].status = "failed"


(***************************************************************************)
(* Properties of cursor pagination.                                        *)
(***************************************************************************)
\* The key (createdAt, id) of a row is at or after the position c.
AtOrAfter(row, c) ==
  \/ row.createdAt > newDate(c.createdAt).t
  \/ row.createdAt = newDate(c.createdAt).t /\ ~textLess(row.id, c.id, 1)

\* C17: a page read with cursor c holds no row whose (created_at, id) is at
\* or after c, and a page read with the cursor a client was sent holds no
\* row created after that cursor was issued.
C17_Step(p) ==
  (resp'.op = "page" /\ resp'.who = p /\ resp'.result = "ok" /\ resp'.raw # NoCursor) =>
    /\ \A i \in DOMAIN resp'.data : ~AtOrAfter(resp'.data[i], decodeCursor(resp'.raw))
    /\ resp'.raw = pg[p].cursor =>
         \A i \in DOMAIN resp'.data : resp'.data[i].createdAt <= pg[p].issuedAt

C17_CursorStability == [][\A p \in Pagers : C17_Step(p)]_vars

\* A page was read with the cursor of an earlier page after a later run
\* of the batch had inserted its rows.
C17_Witness ==
  \E p \in Pagers :
    /\ resp.op = "page" /\ resp.who = p /\ resp.result = "ok"
    /\ resp.raw = pg[p].cursor
    /\ resp.raw # NoCursor
    /\ \E t \in DOMAIN txs : txs[t].createdAt > pg[p].issuedAt

\* A date text in the ISO-8601 form, and an id of UUID shape (8-4-4-4-12
\* hexadecimal digits).
IsoDate(text) == text.form = "iso"

UuidShape(id) ==
  /\ Len(id) = ID_LENGTH
  /\ \A k \in DOMAIN id : IF k \in {9, 14, 19, 24} THEN id[k] = "-"
                          ELSE id[k] \in HexOrDash \ {"-"}

WellFormed(raw) ==
  /\ raw.enc = "base64url"
  /\ raw.text.syntax = "json"
  /\ DOMAIN raw.text.value = {"createdAt", "id"}
  /\ IsoDate(raw.text.value.createdAt)
  /\ UuidShape(raw.text.value.id)

\* C18: a request whose cursor is the encoding of an ISO-8601 date d and a
\* UUID i is served from the position (d, i) exactly, and a request with any
\* other cursor is answered with the invalid-cursor error.
C18_CursorRoundTrip ==
  (resp.op = "page" /\ resp.raw # NoCursor /\ resp.result # "invalid_status") =>
    IF WellFormed(resp.raw)
    THEN /\ resp.result = "ok"
         /\ decodeCursor(resp.raw) = [ok |-> TRUE, createdAt |-> resp.raw.text.value.createdAt,
                                      id |-> resp.raw.text.value.id]
         /\ encodeCursor(resp.raw.text.value.createdAt, resp.raw.text.value.id) = resp.raw
    ELSE resp.result = "invalid_cursor"


(***************************************************************************)
(* Properties of the matching engine.                                      *)
(***************************************************************************)
SameCandidates(c, d) ==
  Len(c) = Len(d) /\ {c[i] : i \in DOMAIN c} = {d[i] : i \in DOMAIN d}

\* C19: matchTransaction returns the same matched invoice id for every
\* order of the same candidates.
C19_OrderIndependent ==
  call.state = "returned" =>
    \A c \in CandidateLists :
      SameCandidates(c, call.candidates) =>
        matchTransaction(call.row, c).matchedInvoiceId = call.result.matchedInvoiceId

\* C20: the status of a match result is AUTO_MATCHED exactly when the
\* returned score is at least 95, NEEDS_REVIEW exactly when it is at least
\* 60 and below 95, and UNMATCHED exactly when it is below 60.
C20_ClassificationBoundaries ==
  call.state = "returned" =>
    LET score == call.result.confidenceScore
        status == call.result.status
    IN /\ status = "AUTO_MATCHED" <=> score >= pts(95)
       /\ status = "NEEDS_REVIEW" <=> (pts(60) <= score /\ score < pts(95))
       /\ status = "UNMATCHED" <=> score < pts(60)

\* A single candidate whose total of 94.995 was rounded to the returned
\* score 95.00 and classified AUTO_MATCHED.
C20_Witness ==
  /\ call.state = "returned"
  /\ Len(call.candidates) = 1
  /\ call.row.nameSimilarity[call.candidates[1].id] = 94995
  /\ call.result.confidenceScore = pts(95)
  /\ call.result.status = "AUTO_MATCHED"


C22_UnmatchedHasNoInvoice ==
  /\ \A w \in Workers :
       /\ \A i \in DOMAIN wrk[w].transactions :
            wrk[w].transactions[i].status = "unmatched" =>
              wrk[w].transactions[i].matchedInvoiceId = Null
       /\ \A i \in DOMAIN wrk[w].rows :
            LET amounts == {wrk[w].rows[j].amount : j \in DOMAIN wrk[w].rows}
                result == matchTransaction(wrk[w].rows[i],
                                           candidatesFor(amounts, wrk[w].rows[i].amount))
            IN result.status = "UNMATCHED" => result.matchedInvoiceId = Null
  /\ \A t \in DOMAIN txs : txs[t].status = "unmatched" => txs[t].matchedInvoiceId = Null

\* The worker has stored, as unmatched and without invoice, a row that had a
\* candidate (RowLow, or RowBlank).
C22_Witness ==
  \E w \in Workers : \E i \in DOMAIN wrk[w].rows :
    /\ wrk[w].pc = "auditFind"
    /\ wrk[w].transactions[i].status = "unmatched"
    /\ Len(candidatesFor({wrk[w].rows[i].amount}, wrk[w].rows[i].amount)) > 0
    /\ \E t \in DOMAIN txs : txs[t].status = "unmatched" /\ txs[t].matchedInvoiceId = Null


SystemEntries(log, transactionId) ==
  {e \in BagToSet(log) : e.transactionId = transactionId /\ e.performedBy = "system"}

\* C24: when a run has brought the batch to completed, each transaction it
\* inserted as auto_matched with an invoice has exactly one worker-written
\* entry (auto_matched, system, previous invoice null, new invoice the
\* matched one), and each transaction inserted as needs_review or unmatched
\* has none, whatever the admin did in the meantime.
C24_WorkerAuditComplete ==
  \A w \in Workers :
    LET b == wrk[w].batchId
        inserted == wrk[w].transactions
        first == nextTxId - Len(inserted)
    IN (wrk[w].pc = "finally" /\ wrk[w].thrown = "none" /\ batches[b].status = "completed")
       => \A i \in DOMAIN inserted :
            LET id == first + i - 1
                entry == AuditEntry(id, "auto_matched", Null, inserted[i].matchedInvoiceId,
                                    "system", "auto")
            IN IF inserted[i].status = "auto_matched" /\ inserted[i].matchedInvoiceId # Null
               THEN SystemEntries(audit, id) = {entry} /\ CopiesIn(entry, audit) = 1
               ELSE SystemEntries(audit, id) = {}


\* A row whose date parses, whose amount is above zero and whose trimmed
\* description is not empty.
Eligible(row) == row.dateOk /\ row.amount > 0 /\ row.descOk

\* C25: a run that completes has made a transaction of each row of the file
\* whose date parses, whose amount is above zero and whose description is not
\* empty, of no other row, and totalTransactions counts exactly those rows.
C25_OnlyEligibleRows ==
  \A w \in Workers :
    LET b == wrk[w].batchId IN
    (wrk[w].pc = "finally" /\ wrk[w].thrown = "none" /\ batches[b].status = "completed"
       /\ b \in DOMAIN files)
    => LET kept == SelectSeq(files[b].rows, Eligible)
       IN /\ wrk[w].rows = kept
          /\ Cardinality(TxOfBatch(txs, b)) = Len(kept)
          /\ batches[b].totalTransactions = Len(kept)


\* Entries the step adds to the log.
Written(e) == CopiesIn(e, audit') > CopiesIn(e, audit)

\* No step of an admin request writes an entry whose actor is system.
AdminNeverWritesSystem ==
  \A e \in BagToSet(audit') : Written(e) => e.performedBy # "system"

\* A request whose body has no performedBy writes the actor admin.
AbsentActorIsAdmin ==
  \A a \in Admins : \A e \in BagToSet(audit') :
    (Written(e) /\ adm[a].pc \in {"tx", "bulkTx"} /\ adm'[a].pc = "idle"
       /\ adm[a].supplied = NoPerformedBy)
    => e.performedBy = "admin"

\* C26: the actor system is written by the worker only: no admin action
\* (confirm, reject, manual_match, mark_external, bulk confirm) writes an
\* entry whose actor is system, and a request that supplies no performedBy
\* writes the actor admin.
C26_SystemReservedForWorker == [][AdminNeverWritesSystem /\ AbsentActorIsAdmin]_vars


\* C27: normalizeName is idempotent, normalizeName(normalizeName(s)) =
\* normalizeName(s) for every text s, and an empty text or a value that is
\* not a string gives the empty text.
C27_NormalizeIdempotent ==
  call.state = "normalized" =>
    /\ call.twice = call.once
    /\ (call.input.type # "string" \/ call.input.text = << >>) => call.once = << >>

\* A text from which a noise word was removed and whose remaining words
\* changed case: what is returned is shorter, not empty, and returned again
\* by the second application.
C27_Witness ==
  /\ call.state = "normalized"
  /\ call.input.type = "string"
  /\ \E i \in DOMAIN call.input.text : call.input.text[i] = "o"
  /\ call.once = <<"T">>
  /\ call.twice = call.once


\* The batch as a reset leaves it.
IsReset(batch) ==
  /\ batch.status = "processing"
  /\ batch.totalTransactions = 0 /\ batch.processedCount = 0
  /\ batch.autoMatchedCount = 0 /\ batch.needsReviewCount = 0 /\ batch.unmatchedCount = 0
  /\ batch.completedAt = FALSE

\* C28: the reset of a batch is one step: the step that deletes the batch's
\* transactions leaves the batch with status processing, counters zero and
\* no completion time, so that the transactions are never gone while the
\* batch shows the status and counters of the previous attempt.
C28_ResetAtomic ==
  [][\A b \in DOMAIN batches :
       (TxOfBatch(txs, b) # {} /\ TxOfBatch(txs', b) = {}) => IsReset(batches'[b])]_vars


\* C29: a batch stored as completed owns as many transactions as its
\* totalTransactions and its processedCount say, also when two attempts of
\* the same batch run at the same time.
C29_CompletedCountsMatch ==
  \A b \in DOMAIN batches :
    batches[b].status = "completed" =>
      /\ Cardinality(TxOfBatch(txs, b)) = batches[b].totalTransactions
      /\ batches[b].processedCount = batches[b].totalTransactions


\* C30: an attempt delivered after the batch was completed ends, unless the
\* store or the mirror fails during it, with the batch completed again, as
\* many transactions as the counters say and, when the CSV is still there
\* to compare, the counters of the first run; it does not end failed or
\* with the transactions removed.
C30_RedeliveryKeepsResult ==
  \A w \in Workers :
    LET b == wrk[w].batchId IN
    (wrk[w].pc = "finally" /\ wrk[w].error \notin {"store", "mirror"})
    => /\ batches[b].status = "completed"
       /\ Cardinality(TxOfBatch(txs, b)) = batches[b].totalTransactions
       /\ batches[b].processedCount = batches[b].totalTransactions
       /\ b \in DOMAIN files => batches[b] = AfterRun(b, files[b]).batch


\* C31: confirmed and external are absorbing under the admin actions: no
\* step of any confirm, reject, manual_match, mark_external or bulk confirm
\* changes the status or the matched invoice of a transaction that is
\* confirmed or external.
C31_Absorbing ==
  [][\A t \in DOMAIN txs :
       txs[t].status \in {"confirmed", "external"} =>
         /\ txs'[t].status = txs[t].status
         /\ txs'[t].matchedInvoiceId = txs[t].matchedInvoiceId]_vars


\* C32: an audit entry that an admin action writes tells what the action
\* did to the row: its previous invoice is the matched invoice of the row
\* right before the update of that action, its new invoice the matched
\* invoice right after it.
C32_Step ==
  \A e \in BagToSet(audit') :
    (Written(e) /\ e.transactionId \in DOMAIN txs)
    => /\ e.previousInvoiceId = txs[e.transactionId].matchedInvoiceId
       /\ e.newInvoiceId = txs'[e.transactionId].matchedInvoiceId

C32_AuditFaithful == [][C32_Step]_vars


\* C33: the confirmedCount and the transactionIds that a bulk confirm
\* returns are the number and the ids of the transactions that this call
\* moved from auto_matched to confirmed.
C33_Step(a) ==
  (adm[a].pc = "bulkTx" /\ adm'[a].pc = "idle" /\ resp'.result = "ok")
  => LET changed == {t \in DOMAIN txs : /\ txs[t].status = "auto_matched"
                                        /\ txs'[t].status = "confirmed"}
         returned == bulkConfirmResult(adm[a].transactions)
     IN /\ returned.transactionIds = changed
        /\ returned.confirmedCount = Cardinality(changed)

C33_BulkResultExact == [][\A a \in Admins : C33_Step(a)]_vars


\* C34: a bulk confirm for batch b touches only the transactions of b that
\* are auto_matched when its update runs: every other transaction keeps its
\* status and matched invoice and gets no audit entry from the call.
C34_Step(a) ==
  (adm[a].pc = "bulkTx" /\ adm'[a].pc = "idle")
  => \A t \in DOMAIN txs :
       ~(txs[t].uploadBatchId = adm[a].batchId /\ txs[t].status = "auto_matched")
       => /\ txs'[t] = txs[t]
          /\ \A e \in BagToSet(audit') : Written(e) => e.transactionId # t

C34_BulkFrame == [][\A a \in Admins : C34_Step(a)]_vars

(***************************************************************************)
(* Properties of a scan that follows nextCursor.                           *)
(***************************************************************************)
\* Row a comes before row b in the order (created_at DESC, id DESC).
Before(a, b) ==
  \/ a.createdAt > b.createdAt
  \/ a.createdAt = b.createdAt /\ textLess(b.id, a.id, 1)

\* The rows of a finished scan are in order, none of them twice.
InOrder(seen) == \A i \in DOMAIN seen, j \in DOMAIN seen : i < j => Before(seen[i], seen[j])

SeenIds(seen) == {seen[i].id : i \in DOMAIN seen}

\* The rows of a scan that are still stored, with the status asked for.
StillThere(scan) ==
  {uuid(t) : t \in {x \in TxOfBatch(txs, scan.batchId) :
                      /\ uuid(x) \in scan.existing
                      /\ scan.status # NoFilter => txs[x].status = scan.status}}

C36_Shape(response, store, b, L, status) ==
  LET cursor == IF response.raw = NoCursor THEN BadCursor ELSE decodeCursor(response.raw)
      passing == pageWhere(store, b, cursor, status)
      read == findManyPage(store, b, L + 1, cursor, status)
      data == response.data
  IN /\ Len(read) = Min(L + 1, Cardinality(passing))
     /\ Len(data) = Min(L, Len(read))
     /\ \A i \in DOMAIN data : data[i] = PageRow(store, read[i])
     /\ response.hasMore <=> Len(read) > L
     /\ response.nextCursor # NoCursor <=> response.hasMore
     /\ response.hasMore =>
          response.nextCursor = encodeCursor(Date(data[Len(data)].createdAt),
                                             data[Len(data)].id)

\* Whatever request a successful page response answers, it has the shape
\* for the limit and status filter of that request.
C36_Step ==
  \A p \in Pagers, b \in Batches, limitParam \in LimitInputs, status \in StatusInputs :
    (resp'.op = "page" /\ resp'.result = "ok"
       /\ resp' = PageResponse(p, b, resp'.raw, limitParam, status))
    => C36_Shape(resp', txs, b, validateLimit(limitParam), status)

C36_PageShape == [][C36_Step]_vars

\* A page of one row out of two was sent, with a nextCursor made of that
\* row.
C36_Witness ==
  /\ resp.op = "page" /\ resp.result = "ok"
  /\ resp.hasMore
  /\ Len(resp.data) = 1
  /\ Cardinality(TxOfBatch(txs, "b1")) > 1
  /\ resp.nextCursor = encodeCursor(Date(resp.data[1].createdAt), resp.data[1].id)
(***************************************************************************)
(* Properties of status reads when the mirror cannot be read.              *)
(***************************************************************************)
\* The status view shows the counters of the batch row.
StoredView(view, batch) ==
  /\ view.status = batch.status
  /\ view.totalTransactions = batch.totalTransactions
  /\ view.processedCount = batch.processedCount
  /\ view.autoMatchedCount = batch.autoMatchedCount
  /\ view.needsReviewCount = batch.needsReviewCount
  /\ view.unmatchedCount = batch.unmatchedCount
  /\ view.completedAt = batch.completedAt

\* The answer to the request of r when its read of the mirror ends with
\* the given outcome.
AnswerWith(r, outcome) ==
  StatusResponse(r, rd[r].batchId,
                 getBatchStatus(rd[r].batch,
                                safeRedisOperation(getCachedBatchProgress(cache[rd[r].batchId]),
                                                   NoCache, outcome)))

\* C37: a status request that consults the mirror is always answered, and
\* when the mirror is unavailable, its read fails or it holds nothing for
\* the batch, the answer carries the counters read from the store.
C37_Step(r) ==
  (rd[r].pc = "cache" /\ rd'[r].pc = "idle") =>
    /\ resp'.op = "status" /\ resp'.result = "ok"
    /\ \A outcome \in RedisOutcomes :
         (resp' = AnswerWith(r, outcome)
            /\ (outcome # "ok" \/ ~cache[rd[r].batchId].present))
         => StoredView(resp'.view, rd[r].batch)

C37_FallsBackToStore == [][\A r \in Readers : C37_Step(r)]_vars

\* A request for a processing batch was answered with the stored total (0)
\* while the mirror holds the total of an earlier run: its read failed.
C37_Witness ==
  /\ StatusReturned
  /\ resp.view.status = "processing"
  /\ cache[resp.batchId].present
  /\ cache[resp.batchId].totalTransactions = 2
  /\ resp.view.totalTransactions = 0
(***************************************************************************)
(* Properties of manual_match and the invoice it names.                    *)
(***************************************************************************)
\* C38: a manual_match that names an invoice that does not exist ends, at
\* its invoice check, with a bad-request error and with the transactions
\* and the audit table as they were; it never reaches its update.  A
\* manual_match that succeeds stores, as confirmed, the invoice id it
\* validated, which is the id of an invoice.
C38_Step(a) ==
  /\ (adm[a].pc = "invoice" /\ adm'[a] # adm[a] /\ adm[a].invoiceId \notin InvoiceIds)
     => /\ adm'[a].pc = "idle"
        /\ resp' = [who |-> a, op |-> "manual_match",
                    transactionId |-> adm[a].transactionId, result |-> "bad_request"]
        /\ txs' = txs
        /\ audit' = audit
  /\ (adm'[a].pc = "tx" /\ adm'[a].op = "manual_match") => adm'[a].invoiceId \in InvoiceIds
  /\ (adm[a].pc = "tx" /\ adm[a].op = "manual_match" /\ adm'[a].pc = "idle"
        /\ resp'.result = "ok")
     => /\ txs'[adm[a].transactionId].matchedInvoiceId = adm[a].invoiceId
        /\ txs'[adm[a].transactionId].status = "confirmed"
        /\ adm[a].invoiceId \in InvoiceIds

C38_InvoiceValidated == [][\A a \in Admins : C38_Step(a)]_vars

\* A manual_match of a transaction that may be matched by hand has just
\* been refused as a bad request: the invoice it named does not exist.
C38_Witness ==
  /\ resp.op = "manual_match"
  /\ resp.result = "bad_request"
  /\ resp.transactionId \in DOMAIN txs
  /\ txs[resp.transactionId].status \in AllowedStatuses("manual_match")
  /\ txs[resp.transactionId].matchedInvoiceId \notin SuppliedInvoiceIds
(***************************************************************************)
(* Properties of the header check of the CSV parser.                       *)
(***************************************************************************)
\* C39: a batch whose file lacks a required column never has a transaction
\* and is never marked completed, whatever the number of data rows of the
\* file.
C39_MissingColumnIsFatal ==
  \A b \in DOMAIN batches \cap DOMAIN files :
    ~files[b].header =>
      /\ TxOfBatch(txs, b) = {}
      /\ batches[b].status # "completed"
(***************************************************************************)
(* Properties of the date score.                                           *)
(***************************************************************************)
\* The calendar day of an instant in the zone of the process, and the
\* number of days between the calendar days of two instants.
CalendarDay(date, tz) == (date + tz) \div HOURS_PER_DAY

DayDifference(date1, date2, tz) ==
  LET a == CalendarDay(date1, tz)
      b == CalendarDay(date2, tz)
  IN IF a >= b THEN a - b ELSE b - a

Tier(d) ==
  IF d <= 3 THEN 15 ELSE IF d <= 7 THEN 10 ELSE IF d <= 15 THEN 5 ELSE IF d <= 30 THEN 0
  ELSE 0 - 10

ScoreOf(date1, date2, tz) == calculateDateScore(daysBetween(date1, date2, tz))

====
